---- MODULE Spec2Model ----
(***************************************************************************)
(* Layout and arrow-routing engine of the program timeline visualisation   *)
(* (TimelineVisualization component).  Lengths are exact rationals held as *)
(* integers in units of 1/Scale pixel.                                     *)
(***************************************************************************)
EXTENDS Integers, Sequences, FiniteSets, TLC

\* ---------------------------------------------------------------- bounds
MaxYear == 2
FarYear == 19
MaxEvents == 3
MaxSlots == 3

\* ------------------------------------------------------ program constants
marginTop == 100
marginBottom == 40
marginLeft == 100
marginRight == 40
yearRowGap == 58
FullBandECTS == 15
MIN_ECTS_FOR_HEIGHT == 2
STACK_GAP_PX == 4
barInset == 2
vPad == 8
curveR == 8
laneSpacing == 4
vLaneSpacing == 4
cornerRadius == 4

\* --------------------------------------------------------------- helpers
Max(a, b) == IF a >= b THEN a ELSE b

Min(a, b) == IF a <= b THEN a ELSE b

Abs(a) == IF a >= 0 THEN a ELSE -a

Sign(a) == IF a > 0 THEN 1 ELSE IF a < 0 THEN -1 ELSE 0

RECURSIVE Fact(_)
Fact(n) == IF n <= 1 THEN 1 ELSE n * Fact(n - 1)

\* one pixel, in model units; every quotient the layout takes is exact in it
Scale == 30 * Fact(MaxYear) * FarYear

\* Math.round: nearest whole pixel, halves towards +infinity
MathRound(v) == ((2 * v + Scale) \div (2 * Scale)) * Scale

SeqSum(s) ==
    LET F[i \in 0..Len(s)] == IF i = 0 THEN 0 ELSE F[i - 1] + s[i]
    IN F[Len(s)]

SeqMax(s, floor) ==
    LET F[i \in 0..Len(s)] == IF i = 0 THEN floor ELSE Max(F[i - 1], s[i])
    IN F[Len(s)]

SeqMin(s, ceil) ==
    LET F[i \in 0..Len(s)] == IF i = 0 THEN ceil ELSE Min(F[i - 1], s[i])
    IN F[Len(s)]

Flatten(ss) ==
    LET F[i \in 0..Len(ss)] == IF i = 0 THEN <<>> ELSE F[i - 1] \o ss[i]
    IN F[Len(ss)]

\* keys of a JS object in insertion order: first occurrences only
Dedupe(s) ==
    LET F[i \in 0..Len(s)] ==
            IF i = 0 THEN <<>>
            ELSE LET p == F[i - 1]
                 IN IF \E j \in 1..Len(p) : p[j] = s[i] THEN p ELSE Append(p, s[i])
    IN F[Len(s)]

\* Array.prototype.sort with comparator Cmp: stable
SortBy(s, Cmp(_, _)) ==
    LET Ins(t, x) ==
            LET pos == Cardinality({j \in 1..Len(t) : Cmp(t[j], x) <= 0})
            IN SubSeq(t, 1, pos) \o <<x>> \o SubSeq(t, pos + 1, Len(t))
        F[i \in 0..Len(s)] == IF i = 0 THEN <<>> ELSE Ins(F[i - 1], s[i])
    IN F[Len(s)]

\* ------------------------------------------------------------ time grid
\* period definitions (data file): instants in days from the first start
academicPeriods ==
    << [id |-> "P1", start |-> 0,   lectureEnd |-> 50,  end |-> 60,  reExamEnd |-> 90],
       [id |-> "P2", start |-> 65,  lectureEnd |-> 115, end |-> 125, reExamEnd |-> 160],
       [id |-> "P3", start |-> 140, lectureEnd |-> 190, end |-> 200, reExamEnd |-> 240],
       [id |-> "P4", start |-> 205, lectureEnd |-> 255, end |-> 265, reExamEnd |-> 300] >>

PeriodIds == {academicPeriods[i].id : i \in 1..Len(academicPeriods)}

\* a table in which two periods have exchanged their dates, and one in which
\* the second period has the dates of the first
swappedPeriods ==
    [academicPeriods EXCEPT
        ![2] = [academicPeriods[3] EXCEPT !.id = "P2"],
        ![3] = [academicPeriods[2] EXCEPT !.id = "P3"]]

repeatedPeriods ==
    [academicPeriods EXCEPT ![2] = [academicPeriods[1] EXCEPT !.id = "P2"]]

\* a later semester: every instant of the shipped table 10 days on, except
\* the first start
shiftedPeriods ==
    [i \in 1..Len(academicPeriods) |->
        [academicPeriods[i] EXCEPT
            !.start = IF i = 1 THEN 0 ELSE @ + 10,
            !.lectureEnd = @ + 10,
            !.end = @ + 10,
            !.reExamEnd = IF i = Len(academicPeriods) THEN @ ELSE @ + 10]]

PeriodTables == {academicPeriods, shiftedPeriods, swappedPeriods, repeatedPeriods}

\* periods.find(p => p.id === pid) for a defined id
PeriodOf(periods, pid) == periods[CHOOSE i \in 1..Len(periods) : periods[i].id = pid]

periodOrder == [p \in PeriodIds |-> CHOOSE i \in 1..Len(academicPeriods) : academicPeriods[i].id = p]

\* d3.scaleTime().domain([P1.start, P4.reExamEnd]).range([0, width])
timeScale(periods, t, width) ==
    LET d0 == periods[1].start
        d1 == periods[4].reExamEnd
    IN ((t - d0) * width * Scale) \div (d1 - d0)

\* the study-period backgrounds: x and width of one rect per period
studyPeriods(periods, width) ==
    [i \in 1..Len(periods) |->
        [x |-> timeScale(periods, periods[i].start, width),
         width |-> timeScale(periods, periods[i].lectureEnd, width)
                   - timeScale(periods, periods[i].start, width)]]

\* ------------------------------------------------------ bar stack engine
\* courses.forEach(course => course.credits.forEach(credit => ...)), flattened
AllSlots(courses) ==
    Flatten([ci \in 1..Len(courses) |->
        [k \in 1..Len(courses[ci].credits) |->
            [ci |-> ci, code |-> courses[ci].code,
             year |-> courses[ci].credits[k].year,
             period |-> courses[ci].credits[k].period,
             credits |-> courses[ci].credits[k].credits]]])

\* keys `${year}-${period}` of slotsByYearPeriod, in insertion order
slotKeys(courses) ==
    LET all == AllSlots(courses)
    IN Dedupe([i \in 1..Len(all) |-> <<all[i].year, all[i].period>>])

\* slotsByYearPeriod[`${year}-${period}`] || []
slotsByYearPeriod(courses, year, period) ==
    LET InCell(s) == s.year = year /\ s.period = period
    IN SelectSeq(AllSlots(courses), InCell)

numYears(courses) ==
    LET all == AllSlots(courses)
        maxYear == SeqMax([i \in 1..Len(all) |-> all[i].year], 1)
    IN Max(1, maxYear)

totalGaps(courses) == Max(0, numYears(courses) - 1) * yearRowGap

\* the baseline taken from the height measured in this pass, as it was
\* before the first measurement was remembered
baseYearBandHeightMeasured(courses, ref, height) ==
    ((height - totalGaps(courses)) * Scale) \div numYears(courses)

\* ((initialChartHeightRef.current || height) - totalGaps) / numYears
baseYearBandHeight(courses, ref, height) ==
    LET h0 == IF ref # 0 THEN ref ELSE height
    IN ((h0 - totalGaps(courses)) * Scale) \div numYears(courses)

\* the scale taken from the band height available in this pass
pxPerECTSMeasured(courses, ref, height) ==
    (((height - totalGaps(courses)) * Scale) \div numYears(courses)) \div FullBandECTS

\* baseYearBandHeight / 15
pxPerECTS(courses, ref, height) ==
    baseYearBandHeight(courses, ref, height) \div FullBandECTS

\* effECTS * pxPerECTS, the height a slot contributes to its year band
effHeight(credits, px) == Max(credits, MIN_ECTS_FOR_HEIGHT) * px

\* Math.max(rawHeight, minHeight), the height a bar is drawn with
courseHeight(credits, px) == Max(px * credits, px * MIN_ECTS_FOR_HEIGHT)

yearBandHeights(courses, base, px) ==
    [y \in 1..numYears(courses) |->
        LET Needed(p) ==
                LET list == slotsByYearPeriod(courses, y, academicPeriods[p].id)
                    heightSum == SeqSum([i \in 1..Len(list) |-> effHeight(list[i].credits, px)])
                    gaps == Max(0, Len(list) - 1) * STACK_GAP_PX * Scale
                IN IF Len(list) = 0 THEN 0 ELSE heightSum + gaps
            maxPeriodHeightNeeded == SeqMax([p \in 1..Len(academicPeriods) |-> Needed(p)], 0)
        IN Max(base, maxPeriodHeightNeeded)]

requiredTotalHeight(courses, bands) == SeqSum(bands) + totalGaps(courses) * Scale

yearYOffset(bands) ==
    LET F[i \in 1..Len(bands)] ==
            IF i = 1 THEN 0 ELSE F[i - 1] + bands[i - 1] + yearRowGap * Scale
    IN [i \in 1..Len(bands) |-> F[i]]

\* first pass: one BarInfo per slot, cell by cell, stacked from the band top
allBars(periods, courses, width, px, offsets) ==
    LET keys == slotKeys(courses)
        Cell(key) ==
            LET list == slotsByYearPeriod(courses, key[1], key[2])
                period == PeriodOf(periods, key[2])
                x == timeScale(periods, period.start, width)
                cursorY[i \in 1..Len(list)] ==
                    IF i = 1 THEN offsets[key[1]]
                    ELSE cursorY[i - 1] + courseHeight(list[i - 1].credits, px)
                                        + STACK_GAP_PX * Scale
            IN [i \in 1..Len(list) |->
                   LET periodObj == PeriodOf(periods, list[i].period)
                       courseWidth == timeScale(periods, periodObj.lectureEnd, width)
                                      - timeScale(periods, periodObj.start, width)
                   IN [ci |-> list[i].ci, code |-> list[i].code,
                       year |-> list[i].year, period |-> list[i].period,
                       credits |-> list[i].credits,
                       barX |-> x + barInset * Scale,
                       barY |-> cursorY[i],
                       barWidth |-> Max(0, courseWidth - 2 * barInset * Scale),
                       barHeight |-> courseHeight(list[i].credits, px)]]
    IN Flatten([k \in 1..Len(keys) |-> Cell(keys[k])])

\* positionMap[`${code}-${year}-${period}`]: the last bar stored under the key
NoPos == [xStart |-> 0, xEnd |-> 0, yCenter |-> 0, yTop |-> 0, height |-> 0, set |-> FALSE]

positionMap(bars, code, year, period) ==
    LET hits == {i \in 1..Len(bars) : bars[i].code = code /\ bars[i].year = year
                                      /\ bars[i].period = period}
    IN IF hits = {} THEN NoPos
       ELSE LET b == bars[CHOOSE i \in hits : \A j \in hits : j <= i]
            IN [xStart |-> b.barX, xEnd |-> b.barX + b.barWidth,
                yCenter |-> b.barY + b.barHeight \div 2,
                yTop |-> b.barY, height |-> b.barHeight, set |-> TRUE]

\* ------------------------------------------------------------- connectors
\* the largest year among the bars
maxBarYear(bars) == SeqMax([i \in 1..Len(bars) |-> bars[i].year], 0)

periodSequence == <<"P1", "P2", "P3", "P4">>

\* periodSequence.indexOf(p): -1 for an id that is not in the sequence
indexOf(p) ==
    LET hits == {i \in 1..Len(periodSequence) : periodSequence[i] = p}
    IN IF hits = {} THEN -1 ELSE (CHOOSE i \in hits : TRUE) - 1

\* a comparator that leaves the bars in the order of allBars
insertionCmp(a, b) == 0

sequenceCmp(a, b) == indexOf(a.period) - indexOf(b.period)

\* barsByYear[year] of one course, sorted by position in periodSequence
yearBars(bars, code, year) ==
    LET Mine(b) == b.code = code /\ b.year = year
    IN SortBy(SelectSeq(bars, Mine), sequenceCmp)

\* the years of a course's bars in the order Object.entries visits them:
\* integer keys ascending
barYears(bars, code) ==
    LET ys == {bars[i].year : i \in {j \in 1..Len(bars) : bars[j].code = code}}
        F[y \in 0..maxBarYear(bars)] ==
            IF y = 0 THEN <<>> ELSE IF y \in ys THEN Append(F[y - 1], y) ELSE F[y - 1]
    IN F[maxBarYear(bars)]

\* second pass: one connector per pair of neighbours in yearBars whose
\* positions in periodSequence differ by one
connectorsOf(bars, code, year) ==
    LET yb == yearBars(bars, code, year)
        One(i) ==
            LET current == yb[i]
                next == yb[i + 1]
                x1 == current.barX + current.barWidth
                x2 == next.barX
            IN IF indexOf(next.period) = indexOf(current.period) + 1
               THEN << [course |-> code,
                        current |-> <<current.code, current.year, current.period>>,
                        next |-> <<next.code, next.year, next.period>>,
                        points |-> << <<x1 - cornerRadius * Scale, current.barY>>,
                                      <<x2 + cornerRadius * Scale, next.barY>>,
                                      <<x2 + cornerRadius * Scale, next.barY + next.barHeight>>,
                                      <<x1 - cornerRadius * Scale,
                                        current.barY + current.barHeight>> >>] >>
               ELSE <<>>
    IN Flatten([i \in 1..(Len(yb) - 1) |-> One(i)])

connectorsOfCourse(bars, code) ==
    LET years == barYears(bars, code)
    IN Flatten([k \in 1..Len(years) |-> connectorsOf(bars, code, years[k])])

\* connectorBorders, in the order they are collected
connectorBorders(courses, bars) ==
    Flatten([ci \in 1..Len(courses) |-> connectorsOfCourse(bars, courses[ci].code)])

\* barsConnectedRight: the keys of the earlier bar of every connector
barsConnectedRight(conns) == {conns[i].current : i \in 1..Len(conns)}

\* barsWithoutLabels: the keys `${code}-${year}-${period}` of the later bar
\* of every connector
barsWithoutLabels(conns) == {conns[i].next : i \in 1..Len(conns)}

\* shouldShowLabel of every bar, in the order of allBars
shouldShowLabel(bars, conns) ==
    [i \in 1..Len(bars) |->
        <<bars[i].code, bars[i].year, bars[i].period>> \notin barsWithoutLabels(conns)]

\* ------------------------------------------------------------ arrow router
\* a comparator that looks at the year only
yearCmp(a, b) == a.year - b.year

\* (a.year - b.year) || (periodOrder[a.period] - periodOrder[b.period])
creditCmp(a, b) ==
    IF a.year # b.year THEN a.year - b.year
    ELSE periodOrder[a.period] - periodOrder[b.period]

\* a lookup that falls back to the first course when no code matches
findCourseOrFirst(courses, prCode) ==
    LET hits == {i \in 1..Len(courses) : courses[i].code = prCode}
    IN IF hits = {} THEN 1 ELSE CHOOSE i \in hits : \A j \in hits : i <= j

\* courses.find(c => c.code === prCode): index of the first match, 0 if none
findCourse(courses, prCode) ==
    LET hits == {i \in 1..Len(courses) : courses[i].code = prCode}
    IN IF hits = {} THEN 0 ELSE CHOOSE i \in hits : \A j \in hits : i <= j

\* allArrows: per course, its completion arrows and then its participation ones
allArrows(courses, bars) ==
    LET ArrowsOf(ci, list, kind) ==
            LET course == courses[ci]
                courseCreditsSorted == SortBy(course.credits, creditCmp)
                firstCourse == courseCreditsSorted[1]
                One(prCode) ==
                    LET pi == findCourse(courses, prCode)
                        prereq == courses[pi]
                        prereqCreditsSorted == SortBy(prereq.credits, creditCmp)
                        lastPrereq == prereqCreditsSorted[Len(prereqCreditsSorted)]
                        from == positionMap(bars, prereq.code, lastPrereq.year, lastPrereq.period)
                        to == positionMap(bars, course.code, firstCourse.year, firstCourse.period)
                    IN IF pi = 0 THEN <<>>
                       ELSE IF Len(prereq.credits) = 0 THEN <<>>
                       ELSE IF ~from.set \/ ~to.set THEN <<>>
                       ELSE << [prCode |-> prCode, target |-> course.code, kind |-> kind,
                                from |-> from, to |-> to,
                                fromYearIdx |-> lastPrereq.year - 1,
                                toYearIdx |-> firstCourse.year - 1,
                                fromPeriod |-> lastPrereq.period,
                                toPeriod |-> firstCourse.period] >>
            IN IF Len(course.credits) = 0 THEN <<>>
               ELSE Flatten([k \in 1..Len(list) |-> One(list[k])])
    IN Flatten([ci \in 1..Len(courses) |->
           ArrowsOf(ci, courses[ci].completed, "completed")
           \o ArrowsOf(ci, courses[ci].participated, "participation")])

\* a test that takes every arrow within one year for an adjacent one
isWithinYear(arrow) == arrow.fromYearIdx = arrow.toYearIdx

isImmediatelyAfter(arrow) ==
    /\ arrow.fromYearIdx = arrow.toYearIdx
    /\ periodOrder[arrow.toPeriod] = periodOrder[arrow.fromPeriod] + 1

\* corridor keys; the template strings of the source, field by field
\* `inter-period-y${fromYearIdx}-p${f}to${t}`
interPeriodGap(yearIdx, f, t) == <<"inter-period", yearIdx, f, t>>

\* `inter-year-gap-${gapBelowYearIdx}`
interYearGap(k) == <<"inter-year-gap", k, 0, 0>>

\* `inter-period-vertical-y${yearIdx}-p${a}-p${b}`; p4-after is (4, 5) and
\* before-p1 is (0, 1)
verticalGap(yearIdx, a, b) == <<"inter-period-vertical", yearIdx, a, b>>

startGapName(f) == IF f < 4 THEN <<f, f + 1>> ELSE <<4, 5>>

endGapName(t) == IF t > 1 THEN <<t - 1, t>> ELSE <<0, 1>>

\* Step 1: the three segments of one arrow, before lanes are known
arrowSegments(arrow, idx) ==
    LET isSameYear == arrow.fromYearIdx = arrow.toYearIdx
        f == periodOrder[arrow.fromPeriod]
        t == periodOrder[arrow.toPeriod]
        arrowId == <<arrow.prCode, arrow.target>>
        xStart == MathRound(arrow.from.xEnd)
        xEnd == MathRound(arrow.to.xStart)
        yStart == MathRound(arrow.from.yCenter)
        yEnd == MathRound(arrow.to.yCenter)
        Seg(type, dir, gap, gapIdx, x1, y1, x2, y2, same) ==
            [arrowIdx |-> idx, arrowId |-> arrowId, type |-> type, direction |-> dir,
             gapType |-> gap, gapIdx |-> gapIdx,
             x1 |-> x1, y1 |-> y1, x2 |-> x2, y2 |-> y2, fromSameYear |-> same]
        hDir == IF xEnd > xStart THEN "right" ELSE "left"
    IN IF isImmediatelyAfter(arrow)
       THEN LET y == MathRound(arrow.from.yCenter)
                vGap == verticalGap(arrow.fromYearIdx, f, t)
            IN << Seg("horizontal", hDir, interPeriodGap(arrow.fromYearIdx, f, t),
                      arrow.fromYearIdx, xStart, y, xEnd, y, TRUE),
                  Seg("vertical", IF yStart < y THEN "down" ELSE "up", vGap,
                      arrow.fromYearIdx, xStart, yStart, xStart, y, TRUE),
                  Seg("vertical", IF y < yEnd THEN "down" ELSE "up", vGap,
                      arrow.fromYearIdx, xEnd, y, xEnd, yEnd, TRUE) >>
       ELSE LET gapBelowYearIdx == Max(arrow.fromYearIdx, arrow.toYearIdx)
                sName == startGapName(f)
                eName == endGapName(t)
            IN << Seg("horizontal", hDir, interYearGap(gapBelowYearIdx),
                      gapBelowYearIdx, xStart, 0, xEnd, 0, isSameYear),
                  Seg("vertical", "down", verticalGap(arrow.fromYearIdx, sName[1], sName[2]),
                      arrow.fromYearIdx, xStart, yStart, xStart, 0, isSameYear),
                  Seg("vertical", "up", verticalGap(arrow.toYearIdx, eName[1], eName[2]),
                      arrow.toYearIdx, xEnd, 0, xEnd, yEnd, isSameYear) >>

allArrowSegments(arrows) == Flatten([i \in 1..Len(arrows) |-> arrowSegments(arrows[i], i)])

\* Step 2: keys of segmentsByGap in insertion order, and one bucket of it
gapOrder(segs) == Dedupe([i \in 1..Len(segs) |-> segs[i].gapType])

segmentsByGap(segs, gap, type) ==
    LET In(sg) == sg.gapType = gap /\ sg.type = type
    IN SelectSeq(segs, In)

\* the sweep of Step 3 and of assignColumnLanes: s is sorted by Lo; an item
\* joins the running group unless its Lo exceeds the group's largest Hi
sweepGroups(s, Lo(_), Hi(_)) ==
    LET F[i \in 0..Len(s)] ==
            IF i = 0 THEN [groups |-> <<>>, cur |-> <<>>, end |-> 0]
            ELSE LET p == F[i - 1]
                 IN IF Len(p.cur) = 0
                    THEN [groups |-> p.groups, cur |-> <<s[i]>>, end |-> Hi(s[i])]
                    ELSE IF Lo(s[i]) <= p.end
                    THEN [groups |-> p.groups, cur |-> Append(p.cur, s[i]),
                          end |-> Max(p.end, Hi(s[i]))]
                    ELSE [groups |-> Append(p.groups, p.cur), cur |-> <<s[i]>>,
                          end |-> Hi(s[i])]
        last == F[Len(s)]
    IN IF Len(last.cur) > 0 THEN Append(last.groups, last.cur) ELSE last.groups

xMin(sg) == Min(sg.x1, sg.x2)

xMax(sg) == Max(sg.x1, sg.x2)

yMin(sg) == Min(sg.y1, sg.y2)

yMax(sg) == Max(sg.y1, sg.y2)

rawY1(sg) == sg.y1

rawY2(sg) == sg.y2

xMinCmp(a, b) == xMin(a) - xMin(b)

yMinCmp(a, b) == yMin(a) - yMin(b)

y1Cmp(a, b) == a.y1 - b.y1

\* a.y1 - b.y1 || a.x1 - b.x1
y1x1Cmp(a, b) == IF a.y1 # b.y1 THEN a.y1 - b.y1 ELSE a.x1 - b.x1

\* Step 3, horizontal: overlap groups of one corridor by x-range
hGroups(segs, gap) ==
    sweepGroups(SortBy(segmentsByGap(segs, gap, "horizontal"), xMinCmp), xMin, xMax)

\* Step 3, vertical: groups by raw y1/y2 (only their concatenation is used)
vGroups(segs, gap) ==
    sweepGroups(SortBy(segmentsByGap(segs, gap, "vertical"), y1Cmp), rawY1, rawY2)

\* first lane whose end is at or before the start: touching trunks share
findLaneTouching(laneEnds, lo) ==
    LET hits == {j \in 1..Len(laneEnds) : laneEnds[j] <= lo}
    IN IF hits = {} THEN 0 ELSE CHOOSE j \in hits : \A k \in hits : j <= k

\* laneEnds.findIndex(end => end < xMin), 0 when there is none
findLane(laneEnds, lo) ==
    LET hits == {j \in 1..Len(laneEnds) : laneEnds[j] < lo}
    IN IF hits = {} THEN 0 ELSE CHOOSE j \in hits : \A k \in hits : j <= k

\* Step 4, horizontal: first-fit interval colouring of one overlap group;
\* the result pairs every segment of the group with its lane index
hGroupLanes(group) ==
    LET items == SortBy(group, xMinCmp)
        F[i \in 0..Len(items)] ==
            IF i = 0 THEN [laneEnds |-> <<>>, out |-> <<>>]
            ELSE LET p == F[i - 1]
                     found == findLane(p.laneEnds, xMin(items[i]))
                     laneIdx == IF found = 0 THEN Len(p.laneEnds) ELSE found - 1
                     ends == IF found = 0 THEN Append(p.laneEnds, xMax(items[i]))
                             ELSE [p.laneEnds EXCEPT ![found] = xMax(items[i])]
                 IN [laneEnds |-> ends,
                     out |-> Append(p.out, [seg |-> items[i], lane |-> laneIdx])]
    IN F[Len(items)].out

\* Step 4, vertical: the two columns of one corridor
vAll(segs, gap) == Flatten(vGroups(segs, gap))

startCol(segs, gap) ==
    LET all == vAll(segs, gap)
        xs == [i \in 1..Len(all) |-> all[i].x1]
        minX == SeqMin(xs, xs[1])
        maxX == SeqMax(xs, xs[1])
        InStart(sg) == 2 * sg.x1 <= minX + maxX
    IN IF Len(all) = 0 THEN <<>> ELSE SelectSeq(all, InStart)

endCol(segs, gap) ==
    LET all == vAll(segs, gap)
        xs == [i \in 1..Len(all) |-> all[i].x1]
        minX == SeqMin(xs, xs[1])
        maxX == SeqMax(xs, xs[1])
        InEnd(sg) == 2 * sg.x1 > minX + maxX
    IN IF Len(all) = 0 THEN <<>> ELSE SelectSeq(all, InEnd)

\* assignColumnLanes: overlap groups of a column by normalised y-range
columnGroups(colSegs) == sweepGroups(SortBy(colSegs, yMinCmp), yMin, yMax)

\* within a column group the lane is the position in (y1, x1) order
vGroupLanes(group) ==
    LET ordered == SortBy(group, y1x1Cmp)
    IN [i \in 1..Len(ordered) |-> [seg |-> ordered[i], lane |-> i - 1]]

\* posKey: whether a vertical is the arrow's start or its end one
posKey(sg, arrows) ==
    LET arr == arrows[sg.arrowIdx]
        distToStart == Abs(sg.x1 - arr.from.xEnd)
        distToEnd == Abs(sg.x1 - arr.to.xStart)
    IN IF distToStart <= distToEnd THEN "start" ELSE "end"

\* every assignment segmentLanes[arrowId][key] = laneIdx of Step 4, in the
\* order the source makes them
laneWrites(segs, arrows) ==
    LET gaps == gapOrder(segs)
        Tag(gs, g, label) ==
            [i \in 1..Len(gs[g]) |-> [seg |-> gs[g][i].seg, lane |-> gs[g][i].lane, grp |-> g]]
        HW(gap) ==
            LET gs == hGroups(segs, gap)
                ls == [g \in 1..Len(gs) |-> hGroupLanes(gs[g])]
                as == Flatten([g \in 1..Len(gs) |-> Tag(ls, g, "h")])
            IN [i \in 1..Len(as) |->
                   [arrowId |-> as[i].seg.arrowId, o |-> "horizontal", gap |-> gap,
                    lane |-> as[i].lane, seg |-> as[i].seg, col |-> "h", grp |-> as[i].grp]]
        VW(gap, col, label) ==
            LET gs == columnGroups(col)
                ls == [g \in 1..Len(gs) |-> vGroupLanes(gs[g])]
                as == Flatten([g \in 1..Len(gs) |-> Tag(ls, g, label)])
            IN [i \in 1..Len(as) |->
                   [arrowId |-> as[i].seg.arrowId,
                    o |-> posKey(as[i].seg, arrows), gap |-> gap,
                    lane |-> as[i].lane, seg |-> as[i].seg, col |-> label, grp |-> as[i].grp]]
    IN Flatten([k \in 1..Len(gaps) |->
           HW(gaps[k]) \o VW(gaps[k], startCol(segs, gaps[k]), "start")
                       \o VW(gaps[k], endCol(segs, gaps[k]), "end")])

\* segmentLanes[arrowId]?.[key] ?? 0 : the last assignment under the key
segmentLanes(writes, arrowId, o, gap) ==
    LET hits == {i \in 1..Len(writes) : writes[i].arrowId = arrowId
                                        /\ writes[i].o = o /\ writes[i].gap = gap}
    IN IF hits = {} THEN 0
       ELSE writes[CHOOSE i \in hits : \A j \in hits : j <= i].lane

\* Step 4.5: the routing points of one arrow, from its assigned lanes
arrowPoints(arrow, writes, bands, offsets) ==
    LET isSameYear == arrow.fromYearIdx = arrow.toYearIdx
        fromPNum == periodOrder[arrow.fromPeriod]
        toPNum == periodOrder[arrow.toPeriod]
        after == isImmediatelyAfter(arrow)
        arrowId == <<arrow.prCode, arrow.target>>
        gapType == IF after THEN interPeriodGap(arrow.fromYearIdx, fromPNum, toPNum)
                   ELSE interYearGap(Max(arrow.fromYearIdx, arrow.toYearIdx))
        hLaneIdx == segmentLanes(writes, arrowId, "horizontal", gapType)
        sName == startGapName(fromPNum)
        eName == endGapName(toPNum)
        vGapTypeStart == IF after THEN verticalGap(arrow.fromYearIdx, fromPNum, toPNum)
                         ELSE verticalGap(arrow.fromYearIdx, sName[1], sName[2])
        vGapTypeEnd == IF after THEN verticalGap(arrow.fromYearIdx, fromPNum, toPNum)
                       ELSE verticalGap(arrow.toYearIdx, eName[1], eName[2])
        vLaneIdxStart == segmentLanes(writes, arrowId, "start", vGapTypeStart)
        vLaneIdxEnd == segmentLanes(writes, arrowId, "end", vGapTypeEnd)
        startX == arrow.from.xEnd
        startY == arrow.from.yCenter
        endX == arrow.to.xStart
        endY == arrow.to.yCenter
        xRouting == startX + vLaneSpacing * Scale + vLaneIdxStart * vLaneSpacing * Scale
        xNearEnd == endX - vLaneSpacing * Scale - vLaneIdxEnd * vLaneSpacing * Scale
        routingY == startY + hLaneIdx * laneSpacing * Scale
        fromYearY == offsets[arrow.fromYearIdx + 1]
        yGap == IF isSameYear
                THEN fromYearY + bands[arrow.fromYearIdx + 1] + vPad * Scale
                     + hLaneIdx * laneSpacing * Scale
                ELSE offsets[Max(arrow.fromYearIdx, arrow.toYearIdx) + 1]
                     - (yearRowGap * Scale) \div 2 + hLaneIdx * laneSpacing * Scale
        trunkY == IF after THEN routingY ELSE yGap
    IN [points |-> << <<startX, startY>>, <<xRouting, startY>>, <<xRouting, trunkY>>,
                      <<xNearEnd, trunkY>>, <<xNearEnd, endY>>, <<endX, endY>> >>,
        hLaneIdx |-> hLaneIdx, vLaneIdxStart |-> vLaneIdxStart, vLaneIdxEnd |-> vLaneIdxEnd,
        gapType |-> gapType, vGapTypeStart |-> vGapTypeStart, vGapTypeEnd |-> vGapTypeEnd]

\* roundedHVPolyline: the path commands (M, L, Q with their coordinates)
roundedHVPolyline(points, radius) ==
    LET n == Len(points)
        r == radius * Scale
        \* the corner loop; JS index i is j - 1
        F[j \in 1..n] ==
            IF j = 1
            THEN [segments |-> << [type |-> "M", coords |-> <<points[1][1], points[1][2]>>] >>,
                  lastX |-> points[1][1], lastY |-> points[1][2]]
            ELSE LET p == F[j - 1]
                     x0 == points[j - 1][1]
                     y0 == points[j - 1][2]
                     x1 == points[j][1]
                     y1 == points[j][2]
                     dx0 == x0 - points[j - 2][1]
                     dy0 == y0 - points[j - 2][2]
                     dx1 == x1 - x0
                     dy1 == y1 - y0
                     prevX == x0 - Sign(dx0) * r
                     prevY == y0 - Sign(dy0) * r
                     nextX == x0 + Sign(dx1) * r
                     nextY == y0 + Sign(dy1) * r
                 IN IF j > 2 /\ ((dx0 = 0 /\ dy1 = 0 /\ dx1 # 0) \/ (dy0 = 0 /\ dx1 = 0 /\ dy1 # 0))
                    THEN [segments |-> p.segments
                                       \o << [type |-> "L", coords |-> <<prevX, prevY>>],
                                             [type |-> "Q", coords |-> <<x0, y0, nextX, nextY>>] >>,
                          lastX |-> nextX, lastY |-> nextY]
                    ELSE [segments |-> Append(p.segments, [type |-> "L", coords |-> <<x1, y1>>]),
                          lastX |-> x1, lastY |-> y1]
        loop == F[n]
        segs == loop.segments
        targetX == points[n][1]
        targetY == points[n][2]
        \* end y of the command before segs[k]
        PrevY(k) == IF segs[k - 1].type = "Q" THEN segs[k - 1].coords[4]
                    ELSE segs[k - 1].coords[2]
        adjustable == {k \in 2..Len(segs) :
                          /\ segs[k].type = "L"
                          /\ 10 * Abs(segs[k].coords[2] - PrevY(k)) < Scale
                          /\ segs[k].coords[2] = targetY}
        wouldGoForward ==
            \/ targetX > loop.lastX /\ 10 * Abs(targetY - loop.lastY) < Scale
            \/ targetY # loop.lastY /\ targetX = loop.lastX
    IN IF n < 2 THEN <<>>
       ELSE IF loop.lastX = targetX /\ loop.lastY = targetY THEN segs
       ELSE IF adjustable # {}
       THEN LET k == CHOOSE a \in adjustable : \A b \in adjustable : b <= a
            IN [segs EXCEPT ![k].coords[1] = targetX]
       ELSE IF wouldGoForward
       THEN Append(segs, [type |-> "L", coords |-> <<targetX, targetY>>])
       ELSE segs

\* --------------------------------------------------------- the layout pass
\* what a run of the layout effect computes and draws; before the first run
\* nothing is drawn
NoLayout ==
    [drawn |-> FALSE, width |-> 0, measured |-> 0, numYears |-> 0, baseYearBandHeight |-> 0,
     pxPerECTS |-> 0, yearBandHeights |-> <<>>, yearYOffset |-> <<>>,
     requiredTotalHeight |-> 0, grown |-> FALSE, height |-> 0, allBars |-> <<>>,
     allArrows |-> <<>>, allArrowSegments |-> <<>>, laneWrites |-> <<>>,
     routes |-> <<>>, paths |-> <<>>, aborted |-> FALSE,
     connectorBorders |-> <<>>, shouldShowLabel |-> <<>>, studyPeriods |-> <<>>]

\* the measurement and the scale
measurePass(courses, clientWidth, clientHeight, ref) ==
    [NoLayout EXCEPT
        !.drawn = TRUE,
        !.width = clientWidth - marginLeft - marginRight,
        !.measured = clientHeight - marginTop - marginBottom,
        !.numYears = numYears(courses),
        !.baseYearBandHeight =
            baseYearBandHeight(courses, ref, clientHeight - marginTop - marginBottom),
        !.pxPerECTS = pxPerECTS(courses, ref, clientHeight - marginTop - marginBottom)]

\* the year bands
bandPass(courses, l) ==
    [l EXCEPT
        !.yearBandHeights = yearBandHeights(courses, l.baseYearBandHeight, l.pxPerECTS)]

\* the height the bands need
requiredPass(courses, l) ==
    [l EXCEPT
        !.requiredTotalHeight = requiredTotalHeight(courses, l.yearBandHeights),
        !.yearYOffset = yearYOffset(l.yearBandHeights)]

\* a pass that keeps the measured height whatever the bands need
keepPass(l) == [l EXCEPT !.grown = FALSE, !.height = l.measured * Scale]

\* if (requiredTotalHeight > height) height = requiredTotalHeight
growPass(l) ==
    [l EXCEPT
        !.grown = l.requiredTotalHeight > l.measured * Scale,
        !.height = Max(l.requiredTotalHeight, l.measured * Scale)]

\* the period backgrounds
gridPass(periods, l) == [l EXCEPT !.studyPeriods = studyPeriods(periods, l.width)]

\* academicPeriods.find(...)! is undefined for a key whose period id is not
\* defined, and reading period.end of it throws a TypeError
unknownPeriod(courses) ==
    \E i \in 1..Len(slotKeys(courses)) : slotKeys(courses)[i][2] \notin PeriodIds

\* the bars; the pass ends here, with no bar drawn, when the first pass throws
barPass(periods, courses, l) ==
    IF unknownPeriod(courses) THEN [l EXCEPT !.aborted = TRUE]
    ELSE [l EXCEPT !.allBars =
             allBars(periods, courses, l.width, l.pxPerECTS, l.yearYOffset)]

\* the connectors and the labels
connectorPass(courses, l) ==
    [l EXCEPT !.connectorBorders = connectorBorders(courses, l.allBars)]

labelPass(l) ==
    [l EXCEPT !.shouldShowLabel = shouldShowLabel(l.allBars, l.connectorBorders)]

\* the prerequisite arrows and their segments
arrowPass(courses, l) ==
    IF l.aborted THEN l ELSE [l EXCEPT !.allArrows = allArrows(courses, l.allBars)]

segmentPass(l) == [l EXCEPT !.allArrowSegments = allArrowSegments(l.allArrows)]

\* Steps 2 to 4: the lanes
lanePass(l) == [l EXCEPT !.laneWrites = laneWrites(l.allArrowSegments, l.allArrows)]

\* the routing points of every arrow
routePass(l) ==
    [l EXCEPT !.routes =
        [i \in 1..Len(l.allArrows) |->
            arrowPoints(l.allArrows[i], l.laneWrites, l.yearBandHeights, l.yearYOffset)]]

\* the path drawn for every arrow
pathPass(l) ==
    [l EXCEPT !.paths =
        [i \in 1..Len(l.routes) |-> roundedHVPolyline(l.routes[i].points, curveR)]]

\* one run of the layout effect on a non-empty course list
layoutPass(periods, courses, clientWidth, clientHeight, ref) ==
    pathPass(routePass(lanePass(segmentPass(arrowPass(courses,
        labelPass(connectorPass(courses,
            barPass(periods, courses, gridPass(periods,
                growPass(requiredPass(courses, bandPass(courses,
                    measurePass(courses, clientWidth, clientHeight, ref)))))))))))))

\* ------------------------------------------------------------------ inputs
Codes == <<"A", "B", "C">>

CreditChoices == {1, 8}

LayerKeys == {"exams", "reexams", "prereqCompleted", "prereqParticipation",
              "courseBars", "studyPeriods", "examPeriods", "reexamPeriods"}

\* ------------------------------------------------- styles of the drawing
\* the classes of the drawn elements that the layers show and hide
Classes == {"exam-dot", "reexam-dot", "prereq-completed", "prereq-participation",
            "course-block", "course-bar-border", "course-label",
            "course-connector-fill", "course-connector-border",
            "study-period", "exam-period-rect", "reexam-period-rect"}

\* the layer flag each class belongs to
LayerOf ==
    [c \in Classes |->
        CASE c = "exam-dot" -> "exams"
          [] c = "reexam-dot" -> "reexams"
          [] c = "prereq-completed" -> "prereqCompleted"
          [] c = "prereq-participation" -> "prereqParticipation"
          [] c = "study-period" -> "studyPeriods"
          [] c = "exam-period-rect" -> "examPeriods"
          [] c = "reexam-period-rect" -> "reexamPeriods"
          [] OTHER -> "courseBars"]

\* the codes of the courses that have a course-group in the drawing
GroupCodes(l) == {l.allBars[i].code : i \in 1..Len(l.allBars)}

\* freshly appended elements: no display and no opacity set
freshStyles(l) ==
    [display |-> [c \in Classes |-> TRUE],
     group |-> [c \in GroupCodes(l) |-> ""],
     exam |-> [c \in GroupCodes(l) |-> ""],
     reexam |-> [c \in GroupCodes(l) |-> ""],
     path |-> [i \in 1..Len(l.allArrows) |-> ""]]

\* "style initial visibility based on layers state", at the end of the layout
\* effect and before the exam and re-exam dots are appended; a pass that
\* threw does not get here
initialVisibility(ls, l) ==
    IF l.aborted THEN freshStyles(l)
    ELSE [freshStyles(l) EXCEPT
             !.display = [c \in Classes |->
                 IF c \in {"study-period", "exam-period-rect", "reexam-period-rect",
                           "course-block", "course-label"}
                 THEN ls[LayerOf[c]] ELSE TRUE]]

\* useEffect(..., [layers]): display of every class but course-label, and
\* the opacity of the dots and of the prerequisite paths
visibilityEffect(ls, l, st) ==
    [st EXCEPT
        !.display = [c \in Classes |->
                        IF c = "course-label" THEN st.display[c] ELSE ls[LayerOf[c]]],
        !.exam = [c \in DOMAIN st.exam |-> IF ls["exams"] THEN "1" ELSE "0.2"],
        !.reexam = [c \in DOMAIN st.reexam |-> IF ls["reexams"] THEN "1" ELSE "0.2"],
        !.path = [i \in DOMAIN st.path |->
                     IF l.allArrows[i].kind = "completed"
                     THEN IF ls["prereqCompleted"] THEN "1" ELSE "0.15"
                     ELSE IF ls["prereqParticipation"] THEN "1" ELSE "0.15"]]

\* the codes focus mode keeps: the focused course, its prerequisites and the
\* courses that require it
prereqSet(selected) ==
    {selected.completed[i] : i \in 1..Len(selected.completed)}
        \cup {selected.participated[i] : i \in 1..Len(selected.participated)}

dependentSet(cs, code) ==
    {cs[i].code : i \in {j \in 1..Len(cs) : code \in prereqSet(cs[j])}}

\* useEffect(..., [focusCourse, courses]); focus is <<>> for null
focusEffect(focus, cs, l, st) ==
    IF focus = <<>>
    THEN [st EXCEPT !.group = [c \in DOMAIN st.group |-> ""],
                    !.exam = [c \in DOMAIN st.exam |-> ""],
                    !.reexam = [c \in DOMAIN st.reexam |-> ""],
                    !.path = [i \in DOMAIN st.path |-> ""]]
    ELSE IF findCourse(cs, focus[1]) = 0 THEN st
    ELSE LET pre == prereqSet(cs[findCourse(cs, focus[1])])
             dep == dependentSet(cs, focus[1])
             Keep(code) == code = focus[1] \/ code \in pre \/ code \in dep
             KeepPath(a) == \/ a.target = focus[1] /\ a.prCode \in pre
                            \/ a.prCode = focus[1] /\ a.target \in dep
         IN [st EXCEPT
                !.group = [c \in DOMAIN st.group |-> IF Keep(c) THEN "1" ELSE "0.1"],
                !.exam = [c \in DOMAIN st.exam |-> IF Keep(c) THEN "1" ELSE "0.1"],
                !.reexam = [c \in DOMAIN st.reexam |-> IF Keep(c) THEN "1" ELSE "0.1"],
                !.path = [i \in DOMAIN st.path |->
                             IF KeepPath(l.allArrows[i]) THEN "1" ELSE "0.1"]]

\* the effects declared after the layout effect, in their order: the one on
\* [layers] when the layers changed, the one on [focusCourse, courses] when
\* the courses changed
laterEffects(toggled, reloaded, focus, ls, cs, l, st) ==
    IF reloaded
    THEN focusEffect(focus, cs, l, IF toggled THEN visibilityEffect(ls, l, st) ELSE st)
    ELSE IF toggled THEN visibilityEffect(ls, l, st) ELSE st

\* how many elements of each class a pass draws; every course is examined
\* and re-examined in each of its periods, so every bar has its two dots
elements(l) ==
    [c \in Classes |->
        CASE c \in {"study-period", "exam-period-rect", "reexam-period-rect"} ->
                 Len(l.studyPeriods)
          [] c \in {"course-connector-fill", "course-connector-border"} ->
                 Len(l.connectorBorders)
          [] c = "course-label" ->
                 Cardinality({i \in 1..Len(l.shouldShowLabel) : l.shouldShowLabel[i]})
          [] c = "prereq-completed" ->
                 Cardinality({i \in 1..Len(l.allArrows) : l.allArrows[i].kind = "completed"})
          [] c = "prereq-participation" ->
                 Cardinality({i \in 1..Len(l.allArrows) :
                                 l.allArrows[i].kind = "participation"})
          [] OTHER -> Len(l.allBars)]

\* browser viewports: the svg's client width and its CSS height (min 600)
Viewports == {[w |-> 990, h |-> 600], [w |-> 1040, h |-> 616]}

\* a program's years: the usual few, or one far beyond them
Years == (1..MaxYear) \cup {FarYear}

\* prerequisite edges <<source index, target index>>
Edges == (1..Len(Codes)) \X (1..Len(Codes))

\* a course list: course i has code Codes[i] and the single slot place[i];
\* comp and part are the completion and participation edges
CourseList(place, comp, part) ==
    [i \in 1..Len(place) |->
        LET SrcOf(es) ==
                LET srcs == {e[1] : e \in {x \in es : x[2] = i}}
                    F[j \in 0..Len(Codes)] ==
                        IF j = 0 THEN <<>>
                        ELSE IF j \in srcs THEN Append(F[j - 1], Codes[j]) ELSE F[j - 1]
                IN F[Len(Codes)]
        IN [code |-> Codes[i], credits |-> <<place[i]>>,
            completed |-> SrcOf(comp), participated |-> SrcOf(part)]]

\* ----------------------------------------------------------- state machine
VARIABLES
    periodTable,            \* academicPeriods as imported from the data file
    courses,                \* prop courses of the component
    language,               \* prop language
    layers,                 \* useState layers
    viewport,               \* the browser's size of the svg element
    svgHeightAttr,          \* height attribute of the svg node, <<>> when unset
    initialChartHeightRef,  \* useRef: <<>> is null, <<h>> a remembered height
    out,                    \* what the last run of the layout effect drew
    styles,                 \* inline display and opacity of the drawn elements
    focusCourse,            \* useState focusCourse: <<>> is null, <<code>> a code
    selectedInfo,           \* useState selectedInfo: <<>> is null, <<info>> the panel's
    selectedProgram,        \* HomeClient useState selectedProgram: a program code
    searchParams,           \* the program parameter useSearchParams returns, "" if none
    replaces,               \* router.replace calls that have not been applied yet
    pendingCourses,         \* loadCourses promises in flight, per program
    pendingCosmetics,       \* loadCosmetics promises in flight, per program
    cosmetics,              \* HomeClient useState cosmetics: <<>> is null
    picked,                 \* the option last chosen in the selector, <<>> if none
    events                  \* user and data events so far

vars == <<periodTable, courses, language, layers, viewport, svgHeightAttr,
          initialChartHeightRef, out, styles, focusCourse, selectedInfo,
          selectedProgram, searchParams, replaces, pendingCourses, pendingCosmetics,
          cosmetics, picked, events>>

\* the state of the parent component
home == <<selectedProgram, searchParams, replaces, pendingCourses, pendingCosmetics,
          cosmetics, picked>>

\* ----------------------------------------------------- the parent component
\* programs.json: the programs the selector offers, each with the course list
\* its data file holds and the groups of its cosmetics file, if it has one
programs ==
    << [code |-> "TA", cosmeticsFile |-> <<"ta-groups">>,
        dataFile |-> CourseList(<<[year |-> 1, period |-> "P1", credits |-> 8],
                                  [year |-> 1, period |-> "P2", credits |-> 8]>>,
                                {<<1, 2>>}, {})],
       [code |-> "TB", cosmeticsFile |-> <<>>,
        dataFile |-> CourseList(<<[year |-> 1, period |-> "P1", credits |-> 1],
                                  [year |-> 1, period |-> "P1", credits |-> 1]>>,
                                {}, {<<1, 2>>})],
       [code |-> "TC", cosmeticsFile |-> <<"tc-groups">>,
        dataFile |-> CourseList(<<[year |-> 1, period |-> "P1", credits |-> 8],
                                  [year |-> MaxYear, period |-> "P2", credits |-> 8]>>,
                                {<<1, 2>>}, {})] >>

ProgramCodes == {programs[i].code : i \in 1..Len(programs)}

ProgramOf(code) == programs[CHOOSE i \in 1..Len(programs) : programs[i].code = code]

\* String.prototype.toLowerCase on the codes and parameters that occur
toLowerCase(str) ==
    CASE str = "TA" -> "ta"
      [] str = "TB" -> "tb"
      [] str = "TC" -> "tc"
      [] str = "XX" -> "xx"
      [] OTHER -> str

\* the program parameters a visitor's URL may carry: none, a program code in
\* lower case, a code that names no program
UrlParams == {"", "tb", "XX"}

\* programs.find(p => p.code.toLowerCase() === param.toLowerCase()) for a
\* non-empty param: <<>> is undefined
fromUrl(param) ==
    LET hits == {i \in 1..Len(programs) :
                    toLowerCase(programs[i].code) = toLowerCase(param)}
    IN IF param = "" \/ hits = {} THEN <<>>
       ELSE <<programs[CHOOSE i \in hits : \A j \in hits : i <= j].code>>

\* the URL sync effect, run with selection sel and parameter param when one of
\* them has changed, and the effects of the render it causes: the selection
\* it leaves, the loads the effect on [selectedProgram] starts and the
\* router.replace calls made
urlSync(sel, param) ==
    IF fromUrl(param) # <<>> /\ fromUrl(param)[1] # sel
    THEN [selected |-> fromUrl(param)[1], loads |-> <<fromUrl(param)[1]>>,
          replaces |-> <<>>]
    ELSE [selected |-> sel, loads |-> <<>>,
          replaces |-> IF param = "" THEN <<sel>> ELSE <<>>]

\* the programs with a promise in flight after the loads of the listed
\* programs have started; the loads of one program deliver equal arrays, of
\* which the last delivery stays
started(pending, loads) == pending \cup {loads[i] : i \in 1..Len(loads)}

NonePending == {}

\* the parent at rest, on the first program with the URL in step
HomeIdle ==
    /\ selectedProgram = programs[1].code
    /\ searchParams = programs[1].code
    /\ replaces = <<>>
    /\ pendingCourses = NonePending
    /\ pendingCosmetics = NonePending
    /\ cosmetics = <<>>
    /\ picked = <<>>

\* svgRef.current.clientHeight: the CSS height (min-height 600px), or the
\* explicit height attribute once a pass has set one, in whole pixels
clientHeight(vp, attr) ==
    IF attr = <<>> THEN vp.h ELSE Max(vp.h, MathRound(attr[1]) \div Scale)

Init ==
    /\ periodTable = academicPeriods
    /\ courses = <<>>
    /\ language = "sv"
    /\ layers = [k \in LayerKeys |-> TRUE]
    /\ viewport \in Viewports
    /\ svgHeightAttr = <<>>
    /\ initialChartHeightRef = <<>>
    /\ out = NoLayout
    /\ styles = freshStyles(NoLayout)
    /\ focusCourse = <<>>
    /\ selectedInfo = <<>>
    /\ HomeIdle
    /\ events = 0

\* the layout effect, useEffect(..., [courses, layers, language]), for the
\* course list cs and the layer state ls, and the effects that follow it in
\* the same commit
LayoutEffect(cs, ls, toggled, reloaded) ==
    IF Len(cs) = 0
    THEN /\ UNCHANGED <<svgHeightAttr, initialChartHeightRef, out>>
         /\ styles' = laterEffects(toggled, reloaded, focusCourse, ls, cs, out, styles)
    ELSE \E ch \in {clientHeight(viewport, svgHeightAttr)} :
         \E ref \in {IF initialChartHeightRef = <<>>
                     THEN ch - marginTop - marginBottom
                     ELSE initialChartHeightRef[1]} :
         \E res \in {layoutPass(periodTable, cs, viewport.w, ch, ref)} :
            /\ initialChartHeightRef' = <<ref>>
            /\ out' = res
            /\ styles' = laterEffects(toggled, reloaded, focusCourse, ls, cs, res,
                                       initialVisibility(ls, res))
            /\ svgHeightAttr' = IF res.grown
                                THEN <<res.height + (marginTop + marginBottom) * Scale>>
                                ELSE svgHeightAttr

\* the parent passes a newly loaded course array
LoadCourses(cs) ==
    /\ events < MaxEvents
    /\ events' = events + 1
    /\ courses' = cs
    /\ LayoutEffect(cs, layers, FALSE, TRUE)
    /\ UNCHANGED <<periodTable, language, layers, viewport, focusCourse, selectedInfo>>
    /\ UNCHANGED home

\* a legend entry is clicked: setLayers(s => ({...s, [k]: !s[k]}))
ToggleLayer(k) ==
    /\ events < MaxEvents
    /\ events' = events + 1
    /\ layers' = [layers EXCEPT ![k] = ~layers[k]]
    /\ LayoutEffect(courses, layers', TRUE, FALSE)
    /\ UNCHANGED <<periodTable, courses, language, viewport, focusCourse, selectedInfo>>
    /\ UNCHANGED home

\* the parent switches the language prop
SwitchLanguage ==
    /\ events < MaxEvents
    /\ events' = events + 1
    /\ language' = IF language = "sv" THEN "en" ELSE "sv"
    /\ LayoutEffect(courses, layers, FALSE, FALSE)
    /\ UNCHANGED <<periodTable, courses, layers, viewport, focusCourse, selectedInfo>>
    /\ UNCHANGED home

\* the browser window is resized; no effect depends on it
ResizeViewport(vp) ==
    /\ events < MaxEvents
    /\ events' = events + 1
    /\ vp # viewport
    /\ viewport' = vp
    /\ UNCHANGED <<periodTable, courses, language, layers, svgHeightAttr,
                   initialChartHeightRef, out, styles, focusCourse, selectedInfo>>
    /\ UNCHANGED home

\* the updater of the click handlers: prev === code ? null : code
toggleFocus(prev, code) == IF prev = <<code>> THEN <<>> ELSE <<code>>

\* an updater that opens the panel whatever the new focus is
openInfo(next, code, bar) ==
    <<[course |-> code,
       credit |-> [period |-> bar.period, credits |-> bar.credits, year |-> bar.year]]>>

\* what the updater does to selectedInfo: the clicked bar's course and
\* credit if a course is focused now, null if not
nextInfo(next, code, bar) ==
    IF next = <<>> THEN <<>>
    ELSE <<[course |-> code,
            credit |-> [period |-> bar.period, credits |-> bar.credits, year |-> bar.year]]>>

\* the effect on [focusCourse, courses], run when the focus has changed
afterFocus(next) ==
    IF next = focusCourse THEN styles ELSE focusEffect(next, courses, out, styles)

\* a course bar is clicked; only the effect on [focusCourse, courses] runs
ClickCourse(code) ==
    /\ events < MaxEvents
    /\ events' = events + 1
    /\ code \in GroupCodes(out)
    /\ styles.display["course-block"]
    /\ focusCourse' = toggleFocus(focusCourse, code)
    /\ \E k \in {i \in 1..Len(out.allBars) : out.allBars[i].code = code} :
           selectedInfo' = nextInfo(focusCourse', code, out.allBars[k])
    /\ styles' = afterFocus(focusCourse')
    /\ UNCHANGED <<periodTable, courses, language, layers, viewport, svgHeightAttr,
                   initialChartHeightRef, out>>
    /\ UNCHANGED home

\* the connector between two bars of a course is clicked: the same updater,
\* with the earlier of the two bars
ClickConnector(code) ==
    /\ events < MaxEvents
    /\ events' = events + 1
    /\ styles.display["course-connector-fill"]
    /\ \E c \in {i \in 1..Len(out.connectorBorders) : out.connectorBorders[i].course = code} :
       \E k \in {i \in 1..Len(out.allBars) :
                    <<out.allBars[i].code, out.allBars[i].year, out.allBars[i].period>>
                        = out.connectorBorders[c].current} :
           /\ focusCourse' = toggleFocus(focusCourse, code)
           /\ selectedInfo' = nextInfo(focusCourse', code, out.allBars[k])
    /\ styles' = afterFocus(focusCourse')
    /\ UNCHANGED <<periodTable, courses, language, layers, viewport, svgHeightAttr,
                   initialChartHeightRef, out>>
    /\ UNCHANGED home

\* empty SVG space is clicked while a course is focused or the panel is open:
\* setFocusCourse(null); setSelectedInfo(null)
ClickBackground ==
    /\ events < MaxEvents
    /\ events' = events + 1
    /\ out.drawn
    /\ focusCourse # <<>> \/ selectedInfo # <<>>
    /\ focusCourse' = <<>>
    /\ selectedInfo' = <<>>
    /\ styles' = afterFocus(<<>>)
    /\ UNCHANGED <<periodTable, courses, language, layers, viewport, svgHeightAttr,
                   initialChartHeightRef, out>>
    /\ UNCHANGED home

\* the close button of the info panel, rendered while selectedInfo is set
ClosePanel ==
    /\ events < MaxEvents
    /\ events' = events + 1
    /\ selectedInfo # <<>>
    /\ focusCourse' = <<>>
    /\ selectedInfo' = <<>>
    /\ styles' = afterFocus(<<>>)
    /\ UNCHANGED <<periodTable, courses, language, layers, viewport, svgHeightAttr,
                   initialChartHeightRef, out>>
    /\ UNCHANGED home

\* the page is opened with program parameter url: the first render selects
\* programs[0], its effects start the loads and run the URL sync
InitHome ==
    /\ periodTable = academicPeriods
    /\ courses = <<>>
    /\ language = "sv"
    /\ layers = [k \in LayerKeys |-> TRUE]
    /\ viewport = [w |-> 990, h |-> 600]
    /\ svgHeightAttr = <<>>
    /\ initialChartHeightRef = <<>>
    /\ out = NoLayout
    /\ styles = freshStyles(NoLayout)
    /\ focusCourse = <<>>
    /\ selectedInfo = <<>>
    /\ searchParams \in UrlParams
    /\ selectedProgram = urlSync(programs[1].code, searchParams).selected
    /\ replaces = urlSync(programs[1].code, searchParams).replaces
    /\ pendingCourses =
           started(NonePending,
                   <<programs[1].code>> \o urlSync(programs[1].code, searchParams).loads)
    /\ pendingCosmetics =
           started(NonePending,
                   <<programs[1].code>> \o urlSync(programs[1].code, searchParams).loads)
    /\ cosmetics = <<>>
    /\ picked = <<>>
    /\ events = 0

child == <<periodTable, courses, language, layers, viewport, svgHeightAttr,
           initialChartHeightRef, out, styles, focusCourse, selectedInfo>>

\* another program is chosen in the selector: setSelectedProgram(program) and
\* router.replace; the render that follows still sees the old parameter
PickProgram(code) ==
    /\ events < MaxEvents
    /\ events' = events + 1
    /\ code # selectedProgram
    /\ picked' = <<code>>
    /\ \E r \in {urlSync(code, searchParams)} :
           /\ selectedProgram' = r.selected
           /\ replaces' = replaces \o <<code>> \o r.replaces
           /\ pendingCourses' = started(pendingCourses, <<code>> \o r.loads)
           /\ pendingCosmetics' = started(pendingCosmetics, <<code>> \o r.loads)
    /\ UNCHANGED <<searchParams, cosmetics>>
    /\ UNCHANGED child

\* the router applies a pending replace, dropping the ones before it, and
\* useSearchParams returns its parameter; the URL sync effect runs
NavigationDone(i) ==
    /\ i \in 1..Len(replaces)
    /\ searchParams' = replaces[i]
    /\ \E r \in {urlSync(selectedProgram, replaces[i])} :
           /\ selectedProgram' = r.selected
           /\ replaces' = SubSeq(replaces, i + 1, Len(replaces)) \o r.replaces
           /\ pendingCourses' = started(pendingCourses, r.loads)
           /\ pendingCosmetics' = started(pendingCosmetics, r.loads)
    /\ UNCHANGED <<cosmetics, picked, events>>
    /\ UNCHANGED child

\* a loadCourses promise is fulfilled: .then(setCourses), and the child lays
\* the new list out
CoursesLoaded(code) ==
    /\ code \in pendingCourses
    /\ pendingCourses' = pendingCourses \ {code}
    /\ courses' = ProgramOf(code).dataFile
    /\ LayoutEffect(courses', layers, FALSE, TRUE)
    /\ UNCHANGED <<periodTable, language, layers, viewport, focusCourse, selectedInfo>>
    /\ UNCHANGED <<selectedProgram, searchParams, replaces, pendingCosmetics, cosmetics,
                   picked, events>>

\* a loadCosmetics promise is fulfilled: .then(setCosmetics); null for a
\* program without a cosmetics file
CosmeticsLoaded(code) ==
    /\ code \in pendingCosmetics
    /\ pendingCosmetics' = pendingCosmetics \ {code}
    /\ cosmetics' = ProgramOf(code).cosmeticsFile
    /\ UNCHANGED <<selectedProgram, searchParams, replaces, pendingCourses, picked, events>>
    /\ UNCHANGED child

HomeNext ==
    \/ \E code \in ProgramCodes : PickProgram(code)
    \/ \E i \in 1..MaxEvents : NavigationDone(i)
    \/ \E code \in ProgramCodes : CoursesLoaded(code)
    \/ \E code \in ProgramCodes : CosmeticsLoaded(code)

SpecHome == InitHome /\ [][HomeNext]_vars

\* -------------------------------------------------- input sets and specs
StackSlots == [year : Years, period : {"P1", "P2"}, credits : CreditChoices]

\* course lists without prerequisites, for the bar stack engine
StackInputs == {CourseList(place, {}, {}) : place \in [1..Len(Codes) -> StackSlots]}

\* course lists with up to two completion and one participation prerequisite
\* among three courses: A in P1, B in P1 or P2, C in P2 or P4 of any near year
RoutePlaces ==
    {<<a, b, c>> :
        a \in [year : {1}, period : {"P1"}, credits : CreditChoices],
        b \in [year : {1}, period : {"P1", "P2"}, credits : CreditChoices],
        c \in [year : 1..MaxYear, period : {"P2", "P4"}, credits : CreditChoices]}

RouteEdges == {e \in Edges : e[1] # e[2]}

EdgeSets2 == {{}} \cup {{a, b} : a, b \in RouteEdges}

EdgeSets1 == {{}} \cup {{a} : a \in RouteEdges}

RouteInputs ==
    {CourseList(place, comp, part) :
        place \in RoutePlaces, comp \in EdgeSets2, part \in EdgeSets1}

\* the programs the selector offers: three courses with a chain of
\* prerequisites, A and B stacked in one cell (16 credits, more than a band
\* holds) or side by side, C in the first or the last year
ProgramPlaces ==
    {<<a, b, c>> :
        a \in [year : {1}, period : {"P1"}, credits : {8}],
        b \in [year : {1}, period : {"P1", "P2"}, credits : {8}],
        c \in [year : {1, MaxYear}, period : {"P2"}, credits : {8}]}

Programs == {CourseList(place, {<<1, 2>>, <<2, 3>>}, {}) : place \in ProgramPlaces}

StackNext == \E cs \in StackInputs : ~out.drawn /\ LoadCourses(cs)

SpecStack == Init /\ [][StackNext]_vars

RouteNext == \E cs \in RouteInputs : ~out.drawn /\ LoadCourses(cs)

SpecRoute == Init /\ [][RouteNext]_vars

\* a course spread over up to MaxSlots cells of the first and the last near
\* year, its credits listed chronologically or in reverse; next to it a
\* single-slot course whose period id may be one the period table does not
\* define and whose prerequisites may name a course that is not in the list;
\* the first course may in turn require participation in the second
SlotCells == {1, MaxYear} \X {"P1", "P2", "P3", "P4"}

Before(a, b) == a[1] < b[1] \/ (a[1] = b[1] /\ periodOrder[a[2]] < periodOrder[b[2]])

CellLists ==
    UNION {{c \in [1..n -> SlotCells] : \A i \in 1..(n - 1) : Before(c[i], c[i + 1])}
              : n \in 1..MaxSlots}

Reverse(s) == [i \in 1..Len(s) |-> s[Len(s) + 1 - i]]

SlotLists ==
    {[i \in 1..Len(c) |-> [year |-> c[i][1], period |-> c[i][2], credits |-> 8]]
        : c \in CellLists \cup {Reverse(d) : d \in CellLists}}

SingleSlots == [year : {1}, period : {"P1", "P2", "P9"}, credits : CreditChoices]

PrereqLists == {<<>>, <<"A">>, <<"Z">>, <<"Z", "A">>, <<"A", "Z">>}

PrereqPairs ==
    (PrereqLists \X {<<>>}) \cup ({<<>>, <<"A">>} \X {<<"B">>})

SlotInputs ==
    {<< [code |-> "A", credits |-> a, completed |-> <<>>, participated |-> pre[2]],
        [code |-> "B", credits |-> <<b>>, completed |-> pre[1], participated |-> <<>>] >>
        : a \in SlotLists, b \in SingleSlots, pre \in PrereqPairs}

SlotsNext == \E cs \in SlotInputs : ~out.drawn /\ LoadCourses(cs)

SpecSlots == Init /\ [][SlotsNext]_vars

\* four courses: A and C stacked in a cell, B and D stacked in the cell of the
\* following period, B requiring A and D requiring C
Requirement(kind, code) ==
    [completed |-> IF kind = "completed" THEN <<code>> ELSE <<>>,
     participated |-> IF kind = "participation" THEN <<code>> ELSE <<>>]

PrereqKinds == {"completed", "participation"}

CorridorInputs ==
    {<< [code |-> "A", credits |-> <<[year |-> y, period |-> p[1], credits |-> ca]>>,
         completed |-> <<>>, participated |-> <<>>],
        [code |-> "B", credits |-> <<[year |-> y, period |-> p[2], credits |-> cb]>>,
         completed |-> Requirement(kb, "A").completed,
         participated |-> Requirement(kb, "A").participated],
        [code |-> "C", credits |-> <<[year |-> y, period |-> p[1], credits |-> cc]>>,
         completed |-> <<>>, participated |-> <<>>],
        [code |-> "D", credits |-> <<[year |-> y, period |-> p[2], credits |-> 8]>>,
         completed |-> Requirement(kd, "C").completed,
         participated |-> Requirement(kd, "C").participated] >>
        : y \in 1..MaxYear, p \in {<<"P1", "P2">>, <<"P3", "P4">>},
          ca \in CreditChoices, cb \in CreditChoices, cc \in CreditChoices,
          kb \in PrereqKinds, kd \in PrereqKinds}

CorridorNext == \E cs \in CorridorInputs : ~out.drawn /\ LoadCourses(cs)

SpecCorridor == Init /\ [][CorridorNext]_vars

\* up to three courses stacked in a cell of year 1, and up to three courses
\* stacked in a cell of the first or the last near year, each requiring
\* every one of the former
SourceCodes == <<"A", "B", "C">>

TargetCodes == <<"D", "E", "F">>

FanCourses(n, m, p, y, q, c) ==
    [i \in 1..n |->
        [code |-> SourceCodes[i],
         credits |-> <<[year |-> 1, period |-> p, credits |-> c]>>,
         completed |-> <<>>, participated |-> <<>>]]
    \o [j \in 1..m |->
        [code |-> TargetCodes[j],
         credits |-> <<[year |-> y, period |-> q, credits |-> 8]>>,
         completed |-> SubSeq(SourceCodes, 1, n), participated |-> <<>>]]

FanInputs ==
    {FanCourses(n, m, p, y, q, c) :
        n \in 1..Len(SourceCodes), m \in 1..Len(TargetCodes), p \in {"P1", "P3"},
        y \in {1, MaxYear}, q \in {"P1", "P2"}, c \in CreditChoices}

FanNext == \E cs \in FanInputs : ~out.drawn /\ LoadCourses(cs)

SpecFan == Init /\ [][FanNext]_vars

\* clicks on a drawing of two courses: A in P1 and in P2 or P3 of one year
\* (with or without a connector), and B, which requires A
FocusInputs ==
    {<< [code |-> "A",
         credits |-> << [year |-> 1, period |-> "P1", credits |-> 8],
                        [year |-> 1, period |-> p, credits |-> c] >>,
         completed |-> <<>>, participated |-> <<>>],
        [code |-> "B", credits |-> <<[year |-> y, period |-> "P4", credits |-> 8]>>,
         completed |-> <<"A">>, participated |-> <<>>] >>
        : p \in {"P2", "P3"}, c \in CreditChoices, y \in 1..MaxYear}

FocusNext ==
    \/ \E cs \in FocusInputs : LoadCourses(cs)
    \/ \E code \in {"A", "B"} : ClickCourse(code)
    \/ \E code \in {"A", "B"} : ClickConnector(code)
    \/ ClickBackground
    \/ ClosePanel

SpecFocus == Init /\ [][FocusNext]_vars

\* the lifecycle of the component for any period table the data file may hold
InitGrid ==
    /\ periodTable \in PeriodTables
    /\ courses = <<>>
    /\ language = "sv"
    /\ layers = [k \in LayerKeys |-> TRUE]
    /\ viewport \in Viewports
    /\ svgHeightAttr = <<>>
    /\ initialChartHeightRef = <<>>
    /\ out = NoLayout
    /\ styles = freshStyles(NoLayout)
    /\ focusCourse = <<>>
    /\ selectedInfo = <<>>
    /\ HomeIdle
    /\ events = 0

Next ==
    \/ \E cs \in Programs : LoadCourses(cs)
    \/ \E k \in LayerKeys : ToggleLayer(k)
    \/ SwitchLanguage
    \/ \E vp \in Viewports : ResizeViewport(vp)
    \/ \E code \in {Codes[i] : i \in 1..Len(Codes)} : ClickCourse(code)
    \/ ClickBackground
    \/ ClosePanel

Spec == Init /\ [][Next]_vars

\* --------------------------------------------------------------- properties
SameCell(a, b) == a.year = b.year /\ a.period = b.period

\* the vertical extent a bar covers
BarLo(b) == Min(b.barY, b.barY + b.barHeight)

BarHi(b) == Max(b.barY, b.barY + b.barHeight)

\* C3: in every (year, period) cell the bars cover pairwise-disjoint vertical
\* intervals, and each bar's bottom is at least STACK_GAP_PX above the top
\* of every bar stacked after it
C3_CellBarsDisjoint ==
    \A i, j \in 1..Len(out.allBars) :
        (i < j /\ SameCell(out.allBars[i], out.allBars[j])) =>
            LET a == out.allBars[i]
                b == out.allBars[j]
            IN /\ BarHi(a) < BarLo(b) \/ BarHi(b) < BarLo(a)
               /\ a.barY + a.barHeight + STACK_GAP_PX * Scale <= b.barY

\* bars of one cell, in stacking order
CellBars(y, p) ==
    LET In(b) == b.year = y /\ b.period = p
    IN SelectSeq(out.allBars, In)

\* C4: in every cell the stacked bar heights plus the gaps between them are
\* at most the resolved band height of the cell's year
C4_StackFitsBand ==
    \A y \in 1..Len(out.yearBandHeights) : \A p \in PeriodIds :
        LET bs == CellBars(y, p)
        IN Len(bs) > 0 =>
            SeqSum([i \in 1..Len(bs) |-> bs[i].barHeight])
                + (Len(bs) - 1) * STACK_GAP_PX * Scale <= out.yearBandHeights[y]

\* the same two statements where the pixels-per-credit factor is positive
C3_PositiveScale == out.pxPerECTS > 0 => C3_CellBarsDisjoint

C4_PositiveScale == out.pxPerECTS > 0 => C4_StackFitsBand

\* ---- arrow router
Segs == out.allArrowSegments

\* the interval a segment is normalised to: x-range of a trunk, y-range of a
\* vertical
SegLo(sg) == IF sg.type = "horizontal" THEN xMin(sg) ELSE yMin(sg)

SegHi(sg) == IF sg.type = "horizontal" THEN xMax(sg) ELSE yMax(sg)

Overlap(a, b) == Max(SegLo(a), SegLo(b)) <= Min(SegHi(a), SegHi(b))

\* same corridor key and orientation, and for verticals the same column
SameBucket(a, b) ==
    /\ a.gapType = b.gapType
    /\ a.type = b.type
    /\ a.type = "vertical" => a.x1 = b.x1

\* the lane index a segment is left with after Step 4
SegLane(sg) ==
    segmentLanes(out.laneWrites, sg.arrowId,
                 IF sg.type = "horizontal" THEN "horizontal" ELSE posKey(sg, out.allArrows),
                 sg.gapType)

\* C1: two segments of one bucket whose normalised intervals overlap are
\* left with different lane indices
C1_OverlapDistinctLanes ==
    \A i, j \in 1..Len(Segs) :
        (i < j /\ SameBucket(Segs[i], Segs[j]) /\ Overlap(Segs[i], Segs[j]))
            => SegLane(Segs[i]) # SegLane(Segs[j])

\* the same for arrows that do not share their (source, target) pair
C1_DistinctPairs ==
    \A i, j \in 1..Len(Segs) :
        (i < j /\ SameBucket(Segs[i], Segs[j]) /\ Overlap(Segs[i], Segs[j])
           /\ Segs[i].arrowId # Segs[j].arrowId)
            => SegLane(Segs[i]) # SegLane(Segs[j])

\* the drawn runs of arrow i: its trunk and its two verticals, each with the
\* corridor it lies in, its fixed coordinate and its extent
Trunk(i) ==
    LET r == out.routes[i]
    IN [gap |-> r.gapType, at |-> r.points[3][2],
        lo |-> Min(r.points[3][1], r.points[4][1]),
        hi |-> Max(r.points[3][1], r.points[4][1])]

StartRun(i) ==
    LET r == out.routes[i]
    IN [gap |-> r.vGapTypeStart, at |-> r.points[2][1],
        lo |-> Min(r.points[2][2], r.points[3][2]),
        hi |-> Max(r.points[2][2], r.points[3][2])]

EndRun(i) ==
    LET r == out.routes[i]
    IN [gap |-> r.vGapTypeEnd, at |-> r.points[4][1],
        lo |-> Min(r.points[4][2], r.points[5][2]),
        hi |-> Max(r.points[4][2], r.points[5][2])]

\* two runs lie on the same line of the same corridor over a common stretch
Coincide(a, b) ==
    /\ a.gap = b.gap
    /\ a.at = b.at
    /\ Max(a.lo, b.lo) < Min(a.hi, b.hi)

\* C2: no two distinct arrows have coinciding trunks or coinciding vertical
\* runs inside one corridor
C2_NoCoincidingRuns ==
    \A i, j \in 1..Len(out.routes) :
        i < j =>
            /\ ~Coincide(Trunk(i), Trunk(j))
            /\ \A a \in {StartRun(i), EndRun(i)} : \A b \in {StartRun(j), EndRun(j)} :
                   ~Coincide(a, b)

\* the same for arrows that do not share their (source, target) pair
C2_DistinctPairs ==
    \A i, j \in 1..Len(out.routes) :
        (i < j /\ <<out.allArrows[i].prCode, out.allArrows[i].target>>
                   # <<out.allArrows[j].prCode, out.allArrows[j].target>>) =>
            /\ ~Coincide(Trunk(i), Trunk(j))
            /\ \A a \in {StartRun(i), EndRun(i)} : \A b \in {StartRun(j), EndRun(j)} :
                   ~Coincide(a, b)

\* where a path command ends
EndPoint(c) == IF c.type = "Q" THEN <<c.coords[3], c.coords[4]>>
               ELSE <<c.coords[1], c.coords[2]>>

\* C8: every path starts at the source bar's right edge and its last drawn
\* point is the target bar's left edge
C8_PathEndsAtTarget ==
    \A i \in 1..Len(out.paths) :
        LET path == out.paths[i]
            arrow == out.allArrows[i]
        IN /\ EndPoint(path[1]) = <<arrow.from.xEnd, arrow.from.yCenter>>
           /\ EndPoint(path[Len(path)]) = <<arrow.to.xStart, arrow.to.yCenter>>

\* the displacement of the k-th command of a path (k > 1)
MoveDX(path, k) == EndPoint(path[k])[1] - EndPoint(path[k - 1])[1]

MoveDY(path, k) == EndPoint(path[k])[2] - EndPoint(path[k - 1])[2]

DoublesBack(path) ==
    \E k \in 2..(Len(path) - 1) :
        /\ path[k].type = "L" /\ path[k + 1].type = "L"
        /\ \/ /\ MoveDY(path, k) = 0 /\ MoveDY(path, k + 1) = 0
              /\ Sign(MoveDX(path, k)) * Sign(MoveDX(path, k + 1)) = -1
           \/ /\ MoveDX(path, k) = 0 /\ MoveDX(path, k + 1) = 0
              /\ Sign(MoveDY(path, k)) * Sign(MoveDY(path, k + 1)) = -1

\* C9: no path has a straight move immediately undone by a straight move in
\* the opposite direction, and no path ends beyond the target edge
C9_NoDoubleBackNoOvershoot ==
    \A i \in 1..Len(out.paths) :
        /\ ~DoublesBack(out.paths[i])
        /\ EndPoint(out.paths[i][Len(out.paths[i])])[1] <= out.allArrows[i].to.xStart

\* the overlap groups of Step 4: the assignments of one corridor, column and
\* group, and the largest number of a group's segments sharing a point
GroupOf(w) ==
    {v \in 1..Len(out.laneWrites) :
        /\ out.laneWrites[v].gap = out.laneWrites[w].gap
        /\ out.laneWrites[v].col = out.laneWrites[w].col
        /\ out.laneWrites[v].grp = out.laneWrites[w].grp}

LanesUsed(G) == Cardinality({out.laneWrites[v].lane : v \in G})

MaxShared(G) ==
    LET At(w) == Cardinality({v \in G :
                     /\ SegLo(out.laneWrites[v].seg) <= SegLo(out.laneWrites[w].seg)
                     /\ SegLo(out.laneWrites[w].seg) <= SegHi(out.laneWrites[v].seg)})
    IN CHOOSE m \in {At(w) : w \in G} : \A k \in {At(w) : w \in G} : k <= m

SamePassInputs ==
    /\ out.drawn
    /\ courses' = courses
    /\ layers' = layers
    /\ out'.width = out.width

C6_ToggleKeepsScale ==
    [][(out.drawn /\ layers' # layers /\ courses' = courses /\ out'.width = out.width) =>
        /\ out'.pxPerECTS = out.pxPerECTS
        /\ out'.baseYearBandHeight = out.baseYearBandHeight
        /\ \A i \in 1..Len(out.allBars) :
            /\ out'.allBars[i].barX = out.allBars[i].barX
            /\ out'.allBars[i].barY = out.allBars[i].barY
            /\ out'.allBars[i].barWidth = out.allBars[i].barWidth
            /\ out'.allBars[i].barHeight = out.allBars[i].barHeight]_vars

\* a pass that ran with a layer switched off and measured an SVG that an
\* earlier pass had enlarged
C6_ToggleAfterGrowth ==
    /\ out.drawn
    /\ \E k \in LayerKeys : ~layers[k]
    /\ svgHeightAttr # <<>>
    /\ out.measured > viewport.h - marginTop - marginBottom

\* C7: the pass that follows a change of the course data, or of the viewport
\* since the pass before, takes its baseline band height and pxPerECTS from the
\* height it measures itself; a layer toggle alone keeps the remembered height
C7_BaselineRemeasured ==
    [][/\ ((courses' # courses \/ (out.drawn /\ out'.width # out.width))
            /\ Len(courses') > 0) =>
            /\ out'.baseYearBandHeight * out'.numYears
                 = (out'.measured - totalGaps(courses')) * Scale
            /\ out'.pxPerECTS * FullBandECTS = out'.baseYearBandHeight
       /\ (layers' # layers /\ out.drawn /\ out'.width = out.width) =>
            initialChartHeightRef' = initialChartHeightRef]_vars

\* the half of C7 that the code keeps: no toggle re-measures
C7_ToggleKeepsBaseline ==
    [][(layers' # layers /\ out.drawn) =>
        initialChartHeightRef' = initialChartHeightRef]_vars

\* ---- order of collection
\* the orders a list of n arrows can be collected in
Perms(n) == {p \in [1..n -> 1..n] : \A i, j \in 1..n : p[i] = p[j] => i = j}

Permute(s, p) == [i \in 1..Len(s) |-> s[p[i]]]

\* Steps 1 to 4 on a list of arrows
lanesOf(arrows) == laneWrites(allArrowSegments(arrows), arrows)

\* the lane indices path construction reads for one arrow: trunk, start
\* vertical, end vertical
LaneIdx(arrow, writes) ==
    LET r == arrowPoints(arrow, writes, out.yearBandHeights, out.yearYOffset)
    IN <<r.hLaneIdx, r.vLaneIdxStart, r.vLaneIdxEnd>>

\* C11: with the bars where they are, every arrow is given the same trunk and
\* vertical lane indices whatever the order the arrows were collected in
C11_LanesOrderIndependent ==
    \A p \in Perms(Len(out.allArrows)) :
        \A w \in {lanesOf(Permute(out.allArrows, p))} :
            \A i \in 1..Len(out.allArrows) :
                LaneIdx(out.allArrows[i], w) = LaneIdx(out.allArrows[i], out.laneWrites)

\* the same for lists of arrows in which no two trunks of a corridor start
\* at the same x, no two verticals of a corridor start at the same point, and
\* no two arrows share their (source, target) pair
C11_DistinctStarts ==
    (\A i, j \in 1..Len(Segs) :
        (i < j /\ Segs[i].type = Segs[j].type /\ Segs[i].gapType = Segs[j].gapType)
            => /\ Segs[i].arrowId # Segs[j].arrowId
               /\ Segs[i].type = "horizontal" => xMin(Segs[i]) # xMin(Segs[j])
               /\ Segs[i].type = "vertical" =>
                      <<Segs[i].y1, Segs[i].x1>> # <<Segs[j].y1, Segs[j].x1>>)
        => C11_LanesOrderIndependent

\* ---- prerequisites that name no course
CourseCodes(cs) == {cs[i].code : i \in 1..Len(cs)}

\* the course list with every prerequisite entry that names no course removed
WithoutMissing(cs) ==
    LET Known(code) == code \in CourseCodes(cs)
    IN [i \in 1..Len(cs) |->
           [cs[i] EXCEPT !.completed = SelectSeq(cs[i].completed, Known),
                         !.participated = SelectSeq(cs[i].participated, Known)]]

\* C12: a prerequisite code that names no course of the list gives no arrow
\* and does not end the pass, and the arrows of all other entries, with their
\* anchors, are those the list gives without that entry
C12_MissingPrerequisiteSkipped ==
    (out.drawn /\ ~unknownPeriod(courses)) =>
        /\ ~out.aborted
        /\ \A i \in 1..Len(out.allArrows) : out.allArrows[i].prCode \in CourseCodes(courses)
        /\ out.allArrows = allArrows(WithoutMissing(courses), out.allBars)
        /\ Len(out.paths) = Len(out.allArrows)

\* a pass over a list in which B requires the unlisted Z before the listed A,
\* and the arrow A -> B is the only one drawn
C12_MissingBesideValid ==
    /\ out.drawn
    /\ ~out.aborted
    /\ courses[2].completed = <<"Z", "A">>
    /\ Len(out.allArrows) = 1
    /\ out.allArrows[1].prCode = "A"
    /\ Len(out.paths[1]) > 0

\* ---- unknown period ids
ValidSlots(cs) ==
    LET Valid(sl) == sl.period \in PeriodIds
    IN SelectSeq(AllSlots(cs), Valid)

BarKey(b) == <<b.code, b.year, b.period>>

BarKeys == {BarKey(out.allBars[i]) : i \in 1..Len(out.allBars)}

\* C13: a slot with an undefined period id is left out and the pass goes on:
\* it ends normally, every slot with a defined period has its bar and no
\* other bar is drawn
C13_UnknownPeriodDropped ==
    out.drawn =>
        /\ ~out.aborted
        /\ BarKeys = {BarKey(ValidSlots(courses)[i]) : i \in 1..Len(ValidSlots(courses))}

\* the same for course lists in which every period id is defined
C13_DefinedPeriods == ~unknownPeriod(courses) => C13_UnknownPeriodDropped

\* ---- connectors and labels
Bar(k) == out.allBars[k]

\* two bars of one course and year in periods that follow each other
Adjacent(a, b) ==
    /\ a.code = b.code
    /\ a.year = b.year
    /\ periodOrder[b.period] = periodOrder[a.period] + 1

ConnectorsFor(code, year) ==
    {i \in 1..Len(out.connectorBorders) :
        /\ out.connectorBorders[i].course = code
        /\ out.connectorBorders[i].current[2] = year}

\* C15: for every course and year there are as many connectors as pairs of
\* the course's bars of that year in periods that follow each other, and each
\* connector spans from the right edge of such a pair's earlier bar to the
\* left edge of its later bar, both of one course and one year
C15_ConnectorPerAdjacentPair ==
    /\ \A code \in CourseCodes(courses) : \A year \in 1..out.numYears :
           Cardinality(ConnectorsFor(code, year))
             = Cardinality({p \in (1..Len(out.allBars)) \X (1..Len(out.allBars)) :
                               /\ Bar(p[1]).code = code /\ Bar(p[1]).year = year
                               /\ Adjacent(Bar(p[1]), Bar(p[2]))})
    /\ \A i \in 1..Len(out.connectorBorders) :
           \E j, k \in 1..Len(out.allBars) :
               /\ Adjacent(Bar(j), Bar(k))
               /\ out.connectorBorders[i].current = BarKey(Bar(j))
               /\ out.connectorBorders[i].next = BarKey(Bar(k))
               /\ out.connectorBorders[i].points[1]
                    = <<Bar(j).barX + Bar(j).barWidth - cornerRadius * Scale, Bar(j).barY>>
               /\ out.connectorBorders[i].points[3]
                    = <<Bar(k).barX + cornerRadius * Scale, Bar(k).barY + Bar(k).barHeight>>

\* a course listed with its credits in reverse order, with bars in P1 and P2
\* of one year (one connector) and in P3 of another year (no connector from
\* P2), and another course's bar stacked on its P2 bar
C15_AdjacentAndApart ==
    /\ out.drawn
    /\ Len(out.connectorBorders) = 1
    /\ out.connectorBorders[1].current[3] = "P1"
    /\ Len(courses[1].credits) = 3
    /\ courses[1].credits[1].year > courses[1].credits[3].year
    /\ \E j, k \in 1..Len(out.allBars) :
           /\ Bar(j).code = "A" /\ Bar(k).code = "A" /\ Bar(j).year < Bar(k).year
           /\ Bar(j).period = "P2" /\ Bar(k).period = "P3"
    /\ \E j \in 1..Len(out.allBars) : Bar(j).code = "B" /\ Bar(j).period = "P2"

\* C16: a bar is drawn without its label exactly when the same course has a
\* bar in the period just before it in the same year; so the first bar of a
\* run of consecutive periods, and every bar outside a run, keeps its label
C16_OnlyRunHeadsLabelled ==
    /\ Len(out.shouldShowLabel) = Len(out.allBars)
    /\ \A k \in 1..Len(out.allBars) :
           out.shouldShowLabel[k] = ~(\E j \in 1..Len(out.allBars) : Adjacent(Bar(j), Bar(k)))

Labelled(code, period) ==
    \E k \in 1..Len(out.allBars) :
        Bar(k).code = code /\ Bar(k).period = period /\ out.shouldShowLabel[k]

\* a run of three bars P1, P2, P3 of one course in one year: the first is
\* labelled, the two later ones are not, and the other course's bar is
C16_RunOfThree ==
    /\ out.drawn
    /\ Len(out.allBars) = 4
    /\ Len(out.connectorBorders) = 2
    /\ Labelled("A", "P1") /\ ~Labelled("A", "P2") /\ ~Labelled("A", "P3")
    /\ Labelled("B", "P2")

SpecGrid == InitGrid /\ [][Next]_vars

\* ---- period table
\* the instants of each period are in order and each period is over before
\* the next one starts
Chronological(periods) ==
    /\ \A i \in 1..Len(periods) :
           /\ periods[i].start < periods[i].lectureEnd
           /\ periods[i].lectureEnd <= periods[i].end
           /\ periods[i].end <= periods[i].reExamEnd
    /\ \A i \in 1..(Len(periods) - 1) : periods[i].end < periods[i + 1].start

\* every fifth day from the first start to the last re-exam end
Instants(periods) ==
    {t \in periods[1].start..periods[Len(periods)].reExamEnd : t % 5 = 0}

Increasing(periods, width) ==
    \A t1, t2 \in Instants(periods) :
        t1 < t2 => timeScale(periods, t1, width) < timeScale(periods, t2, width)

\* C14: a pass over a period table that is not strictly chronological aborts
\* and draws no geometry, and over a chronological table the time-to-pixel
\* mapping is strictly increasing from the first start to the last re-exam end
C14_NonChronologicalAborts ==
    /\ (out.drawn /\ ~Chronological(periodTable)) =>
           /\ out.aborted
           /\ Len(out.studyPeriods) = 0
           /\ Len(out.allBars) = 0
    /\ Chronological(periodTable) =>
           Increasing(periodTable, viewport.w - marginLeft - marginRight)

\* the half of C14 that the code keeps: the mapping of a chronological table
C14_ChronologicalIncreasing ==
    Chronological(periodTable) =>
        Increasing(periodTable, viewport.w - marginLeft - marginRight)

\* ---- two arrows through one inter-period corridor
Arrow(i) == out.allArrows[i]

\* arrows i and j leave one cell for the cell of the following period, from
\* different bars to different bars
SameCorridorPair(i, j) ==
    /\ isImmediatelyAfter(Arrow(i)) /\ isImmediatelyAfter(Arrow(j))
    /\ Arrow(i).fromYearIdx = Arrow(j).fromYearIdx
    /\ Arrow(i).fromPeriod = Arrow(j).fromPeriod
    /\ Arrow(i).prCode # Arrow(j).prCode
    /\ Arrow(i).target # Arrow(j).target

TrunkY(i) == out.routes[i].points[3][2]

\* C17: two such arrows get the trunk lanes 0 and 1, and the y-coordinates
\* of their trunks differ by exactly laneSpacing
C17_TrunksLaneSpacingApart ==
    \A i, j \in 1..Len(out.allArrows) :
        (i < j /\ SameCorridorPair(i, j)) =>
            /\ {out.routes[i].hLaneIdx, out.routes[j].hLaneIdx} = {0, 1}
            /\ Abs(TrunkY(i) - TrunkY(j)) = laneSpacing * Scale

\* the half of C17 that the code keeps: the lanes are 0 and 1, and each trunk
\* lies its lane's multiple of laneSpacing below the centre of its source bar
C17_TrunksOnDistinctLanes ==
    \A i, j \in 1..Len(out.allArrows) :
        (i < j /\ SameCorridorPair(i, j)) =>
            /\ {out.routes[i].hLaneIdx, out.routes[j].hLaneIdx} = {0, 1}
            /\ \A k \in {i, j} :
                   TrunkY(k) = Arrow(k).from.yCenter
                               + out.routes[k].hLaneIdx * laneSpacing * Scale

\* ---- minimum bar height
\* what the bars of cell (y, p) need: their drawn heights and the gaps
CellNeed(y, p) ==
    LET bs == CellBars(y, p)
    IN IF Len(bs) = 0 THEN 0
       ELSE SeqSum([i \in 1..Len(bs) |-> bs[i].barHeight])
            + (Len(bs) - 1) * STACK_GAP_PX * Scale

\* C18: every bar is drawn max(credits, 2) * pxPerECTS high, and the band of
\* every year is computed from these same heights: it is the larger of the
\* baseline and the largest need of the year's cells
C18_BarHeightClamped ==
    /\ \A k \in 1..Len(out.allBars) :
           Bar(k).barHeight = Max(Bar(k).credits, MIN_ECTS_FOR_HEIGHT) * out.pxPerECTS
    /\ \A y \in 1..Len(out.yearBandHeights) :
           \A m \in {CHOOSE n \in {CellNeed(y, p) : p \in PeriodIds} :
                        \A p \in PeriodIds : CellNeed(y, p) <= n} :
               out.yearBandHeights[y] = Max(out.baseYearBandHeight, m)

\* the same where the pixels-per-credit factor is positive
C18_PositiveScale == out.pxPerECTS > 0 => C18_BarHeightClamped

\* ---- layer visibility
\* with layer state ls, the elements of every class drawn by pass l are
\* displayed if the flag of the class's layer is on and hidden if it is off
LayersShown(ls, l, st) ==
    \A c \in Classes : elements(l)[c] > 0 => (st.display[c] <=> ls[LayerOf[c]])

\* C19: after any sequence of legend toggles and re-layouts, every drawn
\* element of a layer is hidden exactly when the layer's flag is off
C19_HiddenExactlyWhenOff == out.drawn => LayersShown(layers, out, styles)

\* the part of C19 that the code keeps: the drawing right after a toggle
C19_AfterToggle ==
    [][(layers' # layers /\ out'.drawn) => LayersShown(layers', out', styles')]_vars

\* ---- focus mode
Dimmed(opacity) == opacity \in {"0.1", "0.15", "0.2"}

\* course a is the focused course f, one of its prerequisites or one of the
\* courses that require it
Related(cs, f, a) ==
    \/ a = f
    \/ \E i \in 1..Len(cs) :
           \/ cs[i].code = f /\ a \in prereqSet(cs[i])
           \/ cs[i].code = a /\ f \in prereqSet(cs[i])

\* with course f focused, every group, connector and dot of an unrelated
\* course is dimmed, and an arrow is dimmed unless it starts or ends at f
FocusShown(f, cs, l, st) ==
    /\ \A a \in GroupCodes(l) :
           ~Related(cs, f, a) =>
               Dimmed(st.group[a]) /\ Dimmed(st.exam[a]) /\ Dimmed(st.reexam[a])
    /\ \A i \in 1..Len(l.allArrows) :
           Dimmed(st.path[i]) <=> ~(l.allArrows[i].prCode = f \/ l.allArrows[i].target = f)

\* C20: whenever a course of the list is focused the drawing shows focus
\* mode, also after a layer toggle or a language switch has redrawn the chart
C20_FocusModeShown ==
    (out.drawn /\ focusCourse # <<>> /\ focusCourse[1] \in CourseCodes(courses)) =>
        FocusShown(focusCourse[1], courses, out, styles)

\* the part of C20 that the code keeps: the drawing right after the focus or
\* the course list changed
C20_AfterFocusChange ==
    [][((focusCourse' # focusCourse \/ courses' # courses)
          /\ out'.drawn /\ focusCourse' # <<>>
          /\ focusCourse'[1] \in CourseCodes(courses')) =>
        FocusShown(focusCourse'[1], courses', out', styles')]_vars

\* ---- resolved band heights
\* what the slots of cell (y, p) of the course list need at px per credit
SlotNeed(cs, y, p, px) ==
    LET list == slotsByYearPeriod(cs, y, p)
    IN SeqSum([i \in 1..Len(list) |-> Max(list[i].credits, MIN_ECTS_FOR_HEIGHT) * px])
       + (Len(list) - 1) * STACK_GAP_PX * Scale

UsedPeriods(cs, y) == {p \in PeriodIds : Len(slotsByYearPeriod(cs, y, p)) > 0}

\* C21: the band of every year 1..numYears is the larger of the baseline band
\* height and the largest need of the year's cells (floored credits at
\* pxPerECTS plus the stack gaps); a year without slots gets the baseline
C21_BandHeightFormula ==
    (out.drawn /\ ~unknownPeriod(courses)) =>
        /\ Len(out.yearBandHeights) = out.numYears
        /\ \A y \in 1..out.numYears :
               \A need \in {SlotNeed(courses, y, p, out.pxPerECTS) : p \in UsedPeriods(courses, y)} :
                   out.yearBandHeights[y] >= need
        /\ \A y \in 1..out.numYears :
               \/ out.yearBandHeights[y] = out.baseYearBandHeight
               \/ \E p \in UsedPeriods(courses, y) :
                      /\ out.yearBandHeights[y] = SlotNeed(courses, y, p, out.pxPerECTS)
                      /\ out.yearBandHeights[y] >= out.baseYearBandHeight
        /\ \A y \in 1..out.numYears : out.yearBandHeights[y] >= out.baseYearBandHeight

\* the same where the pixels-per-credit factor is positive
C21_PositiveScale == out.pxPerECTS > 0 => C21_BandHeightFormula

\* ---- growing the chart
\* the bands of the last pass and the gaps between them
BandsAndGaps ==
    SeqSum(out.yearBandHeights) + (Len(out.yearBandHeights) - 1) * yearRowGap * Scale

\* C22: at the end of every pass the chart height is at least the bands plus
\* the inter-year gaps; when these exceed the measured height the chart height
\* is exactly their total and the SVG is given that height plus the margins;
\* and every bar keeps the height its credits have at the scale of the first
\* measured height, whether or not the chart had to grow
C22_ChartGrowsToFit ==
    out.drawn =>
        /\ out.height >= BandsAndGaps
        /\ out.height >= out.measured * Scale
        /\ BandsAndGaps > out.measured * Scale =>
               /\ out.height = BandsAndGaps
               /\ svgHeightAttr = <<BandsAndGaps + (marginTop + marginBottom) * Scale>>
        /\ \A k \in 1..Len(out.allBars) :
               \A room \in {initialChartHeightRef[1] - (out.numYears - 1) * yearRowGap} :
                   Bar(k).barHeight * FullBandECTS * out.numYears
                       = Max(Bar(k).credits * room, MIN_ECTS_FOR_HEIGHT * room) * Scale

\* a pass after a language switch in which two bars stacked in one cell need
\* more than the measured height, and the chart is made exactly that high
C22_GrownPastMeasured ==
    /\ out.drawn
    /\ language = "en"
    /\ out.grown
    /\ out.height > out.measured * Scale
    /\ out.height = BandsAndGaps
    /\ \E j, k \in 1..Len(out.allBars) : j < k /\ SameCell(Bar(j), Bar(k))

\* ---- arrow anchors
Course(code) == courses[findCourse(courses, code)]

\* slot a of a course is at or before its slot b: by year, then by period
NotAfter(a, b) ==
    a.year < b.year \/ (a.year = b.year /\ periodOrder[a.period] <= periodOrder[b.period])

FirstSlots(c) ==
    {c.credits[i] : i \in {j \in 1..Len(c.credits) :
                              \A k \in 1..Len(c.credits) : NotAfter(c.credits[j], c.credits[k])}}

LastSlots(c) ==
    {c.credits[i] : i \in {j \in 1..Len(c.credits) :
                              \A k \in 1..Len(c.credits) : NotAfter(c.credits[k], c.credits[j])}}

\* the bar of course code in the cell of slot sl
BarsAt(code, sl) ==
    {k \in 1..Len(out.allBars) :
        Bar(k).code = code /\ Bar(k).year = sl.year /\ Bar(k).period = sl.period}

ReversedCredits(cs) == [i \in 1..Len(cs) |-> [cs[i] EXCEPT !.credits = Reverse(@)]]

\* C23: every arrow leaves the right edge of the bar of the prerequisite
\* course's last slot and arrives at the left edge of the bar of the dependent
\* course's first slot, first and last by year and then by period; the arrows
\* are the same when every credits array is listed in the opposite order
C23_ArrowAnchorsChronological ==
    (out.drawn /\ ~out.aborted) =>
        /\ \A i \in 1..Len(out.allArrows) :
               /\ \E sl \in LastSlots(Course(Arrow(i).prCode)) :
                  \E k \in BarsAt(Arrow(i).prCode, sl) :
                      /\ Arrow(i).from.xEnd = Bar(k).barX + Bar(k).barWidth
                      /\ Arrow(i).from.yTop = Bar(k).barY
                      /\ Arrow(i).fromYearIdx = sl.year - 1
                      /\ Arrow(i).fromPeriod = sl.period
               /\ \E sl \in FirstSlots(Course(Arrow(i).target)) :
                  \E k \in BarsAt(Arrow(i).target, sl) :
                      /\ Arrow(i).to.xStart = Bar(k).barX
                      /\ Arrow(i).to.yTop = Bar(k).barY
                      /\ Arrow(i).toYearIdx = sl.year - 1
                      /\ Arrow(i).toPeriod = sl.period
        /\ allArrows(ReversedCredits(courses), out.allBars) = out.allArrows

\* a course whose three slots are listed latest first, with an arrow leaving
\* its last slot's bar and an arrow arriving at its first slot's bar
C23_ReversedBothWays ==
    /\ out.drawn
    /\ Len(courses[1].credits) = 3
    /\ NotAfter(courses[1].credits[3], courses[1].credits[1])
    /\ Len(out.allArrows) = 2
    /\ \E i, j \in 1..2 :
           /\ Arrow(i).prCode = "A"
           /\ Arrow(i).fromPeriod = courses[1].credits[1].period
           /\ Arrow(j).target = "A"
           /\ Arrow(j).toPeriod = courses[1].credits[3].period
           /\ Arrow(i).fromPeriod # Arrow(j).toPeriod

\* ---- corridors
\* the target slot of the arrow is in the year of its source slot, in the
\* period that follows the source slot's period
NextPeriodSameYear(a) ==
    /\ a.fromYearIdx = a.toYearIdx
    /\ periodOrder[a.toPeriod] = periodOrder[a.fromPeriod] + 1

\* the segments extracted for arrow i: its trunk, its start vertical and its
\* end vertical, in the order they were stored
SegsOf(i) ==
    LET Mine(sg) == sg.arrowIdx = i
    IN SelectSeq(out.allArrowSegments, Mine)

\* Step 4 stored a lane for segment sg under corridor key gap and slot o
Stored(sg, o, gap) ==
    \E w \in 1..Len(out.laneWrites) :
        /\ out.laneWrites[w].seg = sg
        /\ out.laneWrites[w].arrowId = <<Arrow(sg.arrowIdx).prCode, Arrow(sg.arrowIdx).target>>
        /\ out.laneWrites[w].o = o
        /\ out.laneWrites[w].gap = gap

\* C24: an arrow is routed through an inter-period corridor exactly when its
\* target slot is in the period after its source slot in the same year, and
\* through the inter-year corridor below the lower of its two years otherwise;
\* the keys path construction looks its three lanes up under are the keys its
\* segments were extracted with and their lanes were stored under
C24_CorridorKeysAgree ==
    \A i \in 1..Len(out.allArrows) :
        /\ out.routes[i].gapType[1] \in {"inter-period", "inter-year-gap"}
        /\ out.routes[i].gapType[1] = "inter-period" <=> NextPeriodSameYear(Arrow(i))
        /\ NextPeriodSameYear(Arrow(i)) =>
               out.routes[i].gapType =
                   <<"inter-period", Arrow(i).fromYearIdx,
                     periodOrder[Arrow(i).fromPeriod], periodOrder[Arrow(i).toPeriod]>>
        /\ ~NextPeriodSameYear(Arrow(i)) =>
               out.routes[i].gapType =
                   <<"inter-year-gap", Max(Arrow(i).fromYearIdx, Arrow(i).toYearIdx), 0, 0>>
        /\ Len(SegsOf(i)) = 3
        /\ SegsOf(i)[1].type = "horizontal"
        /\ SegsOf(i)[1].gapType = out.routes[i].gapType
        /\ Stored(SegsOf(i)[1], "horizontal", out.routes[i].gapType)
        /\ SegsOf(i)[2].type = "vertical"
        /\ SegsOf(i)[2].gapType = out.routes[i].vGapTypeStart
        /\ Stored(SegsOf(i)[2], "start", out.routes[i].vGapTypeStart)
        /\ SegsOf(i)[3].type = "vertical"
        /\ SegsOf(i)[3].gapType = out.routes[i].vGapTypeEnd
        /\ Stored(SegsOf(i)[3], "end", out.routes[i].vGapTypeEnd)

\* three arrows in one pass: one to the following period of the same year,
\* one back to an earlier period of the same year and one to a later year
C24_AllThreeRoutes ==
    /\ Len(out.allArrows) = 3
    /\ \E i, j, k \in 1..3 :
           /\ NextPeriodSameYear(Arrow(i))
           /\ out.routes[i].gapType[1] = "inter-period"
           /\ Arrow(j).fromYearIdx = Arrow(j).toYearIdx
           /\ periodOrder[Arrow(j).toPeriod] < periodOrder[Arrow(j).fromPeriod]
           /\ out.routes[j].gapType[1] = "inter-year-gap"
           /\ Arrow(k).fromYearIdx < Arrow(k).toYearIdx
           /\ out.routes[k].gapType = <<"inter-year-gap", Arrow(k).toYearIdx, 0, 0>>

\* ---- bar dimensions
\* C25: every bar has a width of at least 0 and a strictly positive height of
\* at least 2 * pxPerECTS, and pxPerECTS is positive, however many years the
\* course list spans
C25_BarsPositive ==
    out.drawn =>
        /\ out.pxPerECTS > 0
        /\ \A k \in 1..Len(out.allBars) :
               /\ Bar(k).barWidth >= 0
               /\ Bar(k).barHeight > 0
               /\ Bar(k).barHeight >= MIN_ECTS_FOR_HEIGHT * out.pxPerECTS

\* the same for course lists whose inter-year gaps leave room in the height
\* the first pass measured
C25_RoomForGaps ==
    (out.drawn /\ totalGaps(courses) < initialChartHeightRef[1]) => C25_BarsPositive

\* ---- trunks in the inter-year gaps
BandTop(y) == out.yearYOffset[y]

BandBottom(y) == out.yearYOffset[y] + out.yearBandHeights[y]

InterYear(i) == out.routes[i].gapType[1] = "inter-year-gap"

\* the year band the trunk of arrow i runs below: the band of the arrow's
\* year for an arrow within one year, the band above the lower of its two
\* years otherwise
BandAbove(i) ==
    IF Arrow(i).fromYearIdx = Arrow(i).toYearIdx THEN Arrow(i).fromYearIdx + 1
    ELSE Max(Arrow(i).fromYearIdx, Arrow(i).toYearIdx)

\* C26: the trunk of every arrow routed through an inter-year corridor lies
\* outside every year band, strictly below the bottom of the band above its
\* gap and strictly above the top of the band below it, whatever its lane
C26_TrunkClearOfBands ==
    \A i \in 1..Len(out.routes) :
        InterYear(i) =>
            /\ \A y \in 1..out.numYears : TrunkY(i) < BandTop(y) \/ TrunkY(i) > BandBottom(y)
            /\ TrunkY(i) > BandBottom(BandAbove(i))
            /\ BandAbove(i) < out.numYears => TrunkY(i) < BandTop(BandAbove(i) + 1)

\* the same for trunks on the first eight lanes
C26_FirstLanes ==
    \A i \in 1..Len(out.routes) :
        (InterYear(i) /\ out.routes[i].hLaneIdx <= 7) =>
            /\ \A y \in 1..out.numYears : TrunkY(i) < BandTop(y) \/ TrunkY(i) > BandBottom(y)
            /\ TrunkY(i) > BandBottom(BandAbove(i))
            /\ BandAbove(i) < out.numYears => TrunkY(i) < BandTop(BandAbove(i) + 1)

\* ---- year bands
\* C27: the bands are laid out top to bottom, the first at 0 and each next one
\* a band height and yearRowGap further down; every bar lies entirely inside
\* the band of its year, and bars of different years do not overlap vertically
C27_BarsInsideBands ==
    out.drawn =>
        /\ Len(out.yearYOffset) = out.numYears
        /\ out.yearYOffset[1] = 0
        /\ \A y \in 1..(out.numYears - 1) :
               out.yearYOffset[y + 1]
                   = out.yearYOffset[y] + out.yearBandHeights[y] + yearRowGap * Scale
        /\ \A k \in 1..Len(out.allBars) :
               /\ BandTop(Bar(k).year) <= Bar(k).barY
               /\ Bar(k).barY <= Bar(k).barY + Bar(k).barHeight
               /\ Bar(k).barY + Bar(k).barHeight <= BandBottom(Bar(k).year)
        /\ \A j, k \in 1..Len(out.allBars) :
               Bar(j).year < Bar(k).year => BarHi(Bar(j)) < BarLo(Bar(k))

\* the same where the pixels-per-credit factor is positive
C27_PositiveScale == out.pxPerECTS > 0 => C27_BarsInsideBands

C28_LatestSelectionShown ==
    (pendingCourses = {} /\ pendingCosmetics = {}) =>
        /\ courses = ProgramOf(selectedProgram).dataFile
        /\ cosmetics = ProgramOf(selectedProgram).cosmeticsFile

\* the same for the loads started by the first render alone
C28_FirstLoadOnly ==
    (pendingCourses = {} /\ pendingCosmetics = {} /\ events = 0
       /\ fromUrl(searchParams) = <<>>) =>
        /\ courses = ProgramOf(selectedProgram).dataFile
        /\ cosmetics = ProgramOf(selectedProgram).cosmeticsFile

\* C29: from the moment a program is picked in the selector the selection is
\* the picked program: the URL sync effect never puts it back on the program
\* selected before
C29_SelectionStaysOnPick == picked # <<>> => selectedProgram = picked[1]

\* the part of C29 that the code keeps: once every pending router.replace has
\* been applied, the selection and the URL parameter are the picked program
C29_SettledOnPick ==
    (picked # <<>> /\ replaces = <<>>) =>
        /\ selectedProgram = picked[1]
        /\ searchParams = picked[1]

====
